---- MODULE Spec2Model ----
(***************************************************************************)
(* A model of the Triton VM core: the instruction set and its opcodes,     *)
(* the Program container with its field-level codec and label resolution,  *)
(* and the Algebraic Execution Trace (AET) filled by trace_execution.       *)
(*                                                                         *)
(* Three specifications share the module:                                  *)
(*   SpecIsa    instruction -> opcode -> instruction                        *)
(*   SpecCodec  labelled source -> Program -> encode -> decode              *)
(*   Spec       trace_execution: record_state / step / record_co_...        *)
(*                                                                         *)
(* A BFieldElement is a 64-bit value; it is kept as two 32-bit halves       *)
(* [hi, lo] (value = hi * 2^32 + lo) so that "fits into a u32" is hi = 0.   *)
(***************************************************************************)
EXTENDS Integers, Sequences, FiniteSets, TLC

VARIABLES
    \* ---- SpecIsa
    isa_pc,             \* "start" | "opcode" | "done"
    isa_instruction,    \* the instruction under conversion
    isa_other,          \* a second instruction, for uniqueness
    isa_opcode,         \* isa_instruction.opcode()
    isa_other_opcode,   \* isa_other.opcode()
    isa_back,           \* Instruction::try_from(isa_opcode)
    \* ---- SpecCodec
    codec_pc,           \* position in the source -> program -> sequence -> program chain
    source,             \* &[LabelledInstruction]
    constructor,        \* "new" (Program::new) | "from_code" (Program::from_code)
    built,              \* the Program built from source, or the error / panic
    resolved,           \* Vec<Instruction> of convert_labels (before duplication)
    encoded,            \* Vec<BFieldElement>: the sequence handed to decode
    perturbation,       \* what was done to the encoding before decoding it
    decoded,            \* Result<Program> of Program::decode
    \* ---- Spec
    pc,                 \* position in trace_execution's loop
    program,            \* the Program being traced
    aet,                \* AlgebraicExecutionTrace
    state,              \* VMState
    pending_call,       \* Option<CoProcessorCall> returned by the last step
    result,             \* what trace_execution returned
    issue_log,          \* the states and co-processor calls in the order of their issue
    \* ---- SpecTwice
    run_no,             \* 0 outside SpecTwice; 1 for the first execution, 2 for the second
    given_input,        \* the public input both executions are started with
    first_result,       \* Option: what the first execution returned
    hash_seed,          \* RandomState of the HashMaps of the running execution
    \* ---- SpecDrivers
    driver,             \* "debug" | "debug_terminal_state" | "trace_execution"
    dbg_pc,             \* "start" | "loop" | "done"
    initial_state,      \* Option<VMState> handed to the driver
    num_cycles_to_execute,  \* Option<u32> handed to the driver
    dbg_state,          \* the local variable state
    states,             \* the local variable states of debug
    max_cycles,         \* the local variable max_cycles
    dbg_result,         \* what the driver returned
    stopped_by,         \* why the driver returned: "halt" | "cap" | "error" | "panic"
    \* ---- SpecBuilder, SpecFolding, SpecLowering
    circuit_pc,         \* "idle" | "build" | "fold" | "lower" | "done" | "abort"
    builder,            \* the ConstraintCircuitBuilder all nodes belong to
    plan,               \* what the caller builds: the terms, and how the roots derive from them
    circuits,           \* the multicircuit: the root node of every circuit
    last_call,          \* the builder operation that ran last, with what it returned
    rewrites,           \* how many calls have rewritten nodes of the builder so far
    target_degree,      \* the argument target_degree of lower_to_degree
    num_base_cols,      \* the argument num_base_cols of lower_to_degree
    num_ext_cols,       \* the argument num_ext_cols of lower_to_degree
    base_constraints,   \* the local variable base_constraints of lower_to_degree
    ext_constraints,    \* the local variable ext_constraints of lower_to_degree
    \* ---- SpecProof
    proof_pc,           \* "idle" | "given" | "done"
    proof,              \* the Proof handed to padded_height
    proof_height,       \* what Proof::padded_height returned
    \* ---- SpecTerminals
    arg_pc,             \* "idle" | "given" | "done"
    symbols,            \* &[BFieldElement]: the symbols of one table
    other_symbols,      \* the symbols of the table it is compared with
    initial,            \* the argument initial of compute_terminal
    challenge,          \* the argument challenge of compute_terminal
    terminals,          \* compute_terminal(symbols, ..) of PermArg, EvalArg, LookupArg
    other_terminals,    \* the same for other_symbols
    \* ---- SpecProfile
    call_stack,         \* the local variable call_stack of profile
    profile             \* the local variable profile of profile

isaVars == <<isa_pc, isa_instruction, isa_other, isa_opcode, isa_other_opcode, isa_back>>
codecVars == <<codec_pc, source, constructor, built, resolved, encoded, perturbation, decoded>>
traceVars == <<pc, program, aet, state, pending_call, result, issue_log>>
twiceVars == <<run_no, given_input, first_result, hash_seed>>
driverVars == <<driver, dbg_pc, initial_state, num_cycles_to_execute, dbg_state, states,
                max_cycles, dbg_result, stopped_by>>
circuitVars == <<circuit_pc, builder, plan, circuits, last_call, rewrites, target_degree, num_base_cols,
                 num_ext_cols, base_constraints, ext_constraints>>
proofVars == <<proof_pc, proof, proof_height>>
argVars == <<arg_pc, symbols, other_symbols, initial, challenge, terminals, other_terminals>>
profileVars == <<call_stack, profile>>
vars == <<isaVars, codecVars, traceVars, twiceVars, driverVars, circuitVars, proofVars, argVars, profileVars>>

\* what the actions of one specification leave alone
beyondIsa == <<codecVars, traceVars, twiceVars, driverVars, circuitVars, proofVars, argVars, profileVars>>
beyondCodec == <<isaVars, traceVars, twiceVars, driverVars, circuitVars, proofVars, argVars, profileVars>>
beyondTrace == <<isaVars, codecVars, twiceVars, driverVars, circuitVars, proofVars, argVars, profileVars>>
beyondTwice == <<isaVars, codecVars, driverVars, circuitVars, proofVars, argVars, profileVars>>
beyondDrivers == <<isaVars, codecVars, traceVars, twiceVars, circuitVars, proofVars, argVars, profileVars>>
beyondCircuits == <<isaVars, codecVars, traceVars, twiceVars, driverVars, proofVars, argVars, profileVars>>
beyondProof == <<isaVars, codecVars, traceVars, twiceVars, driverVars, circuitVars, argVars, profileVars>>
beyondTerminals == <<isaVars, codecVars, traceVars, twiceVars, driverVars, circuitVars, proofVars, profileVars>>
beyondProfile == <<isaVars, codecVars, traceVars, twiceVars, circuitVars, proofVars, argVars>>

----------------------------------------------------------------------------
(* Bounds of the model *)

\* longest labelled source (labels and instructions together)
MaxSourceLen == 3
\* longest raw field-element sequence handed to decode, header excluded
MaxRawLen == 3
\* cycles after which the model stops stepping a program that has not halted
MaxCycles == 12

----------------------------------------------------------------------------
(* Field elements and results *)

BFieldElement_new(n) == [hi |-> 0, lo |-> n]
BFIELD_ZERO == BFieldElement_new(0)
BFIELD_ONE == BFieldElement_new(1)
\* a value that does not fit into 32 bits: 2^32 + n
BeyondU32(n) == [hi |-> 1, lo |-> n]
\* u32::try_from(x.value())
FitsU32(x) == x.hi = 0

Ok(v) == [ok |-> TRUE, val |-> v]
Err(e) == [ok |-> FALSE, err |-> e]
Some(v) == [some |-> TRUE, val |-> v]
None == [some |-> FALSE]

----------------------------------------------------------------------------
(* instruction.rs: the instruction set *)

NoArg == [none |-> TRUE]
ST(k) == [st |-> k]
I(op) == [op |-> op, arg |-> NoArg]
Push(x) == [op |-> "Push", arg |-> x]
Dup(k) == [op |-> "Dup", arg |-> ST(k)]
Swap(k) == [op |-> "Swap", arg |-> ST(k)]
Call(d) == [op |-> "Call", arg |-> d]

\* #[derive(EnumIter)]: the variants in declaration order, fields defaulted
Instruction_iter ==
    << I("Pop"), Push(BFIELD_ZERO), I("Divine"), Dup(0), Swap(0),
       I("Nop"), I("Skiz"), Call(BFIELD_ZERO), I("Return"), I("Recurse"),
       I("Assert"), I("Halt"),
       I("ReadMem"), I("WriteMem"),
       I("Hash"), I("DivineSibling"), I("AssertVector"), I("AbsorbInit"),
       I("Absorb"), I("Squeeze"),
       I("Add"), I("Mul"), I("Invert"), I("Eq"),
       I("Split"), I("Lt"), I("And"), I("Xor"), I("Log2Floor"), I("Pow"),
       I("Div"), I("PopCount"),
       I("XxAdd"), I("XxMul"), I("XInvert"), I("XbMul"),
       I("ReadIo"), I("WriteIo") >>

ALL_INSTRUCTIONS ==
    { I("Pop"), Push(BFIELD_ZERO), I("Divine"), Dup(0), Swap(0),
      I("Nop"), I("Skiz"), Call(BFIELD_ZERO), I("Return"), I("Recurse"),
      I("Assert"), I("Halt"), I("ReadMem"), I("WriteMem"), I("Hash"),
      I("DivineSibling"), I("AssertVector"), I("AbsorbInit"), I("Absorb"),
      I("Squeeze"), I("Add"), I("Mul"), I("Invert"), I("Eq"), I("Split"),
      I("Lt"), I("And"), I("Xor"), I("Log2Floor"), I("Pow"), I("Div"),
      I("PopCount"), I("XxAdd"), I("XxMul"), I("XInvert"), I("XbMul"),
      I("ReadIo"), I("WriteIo") }

opcode_table ==
    "Pop" :> 2 @@ "Push" :> 1 @@ "Divine" :> 8 @@ "Dup" :> 9 @@
    "Swap" :> 17 @@ "Nop" :> 16 @@ "Skiz" :> 10 @@ "Call" :> 25 @@
    "Return" :> 24 @@ "Recurse" :> 32 @@ "Assert" :> 18 @@ "Halt" :> 0 @@
    "ReadMem" :> 40 @@ "WriteMem" :> 26 @@ "Hash" :> 48 @@ "DivineSibling" :> 56 @@
    "AssertVector" :> 64 @@ "AbsorbInit" :> 72 @@ "Absorb" :> 80 @@ "Squeeze" :> 88 @@
    "Add" :> 34 @@ "Mul" :> 42 @@ "Invert" :> 96 @@ "Eq" :> 50 @@
    "Split" :> 4 @@ "Lt" :> 6 @@ "And" :> 14 @@ "Xor" :> 22 @@
    "Log2Floor" :> 12 @@ "Pow" :> 30 @@ "Div" :> 20 @@ "PopCount" :> 28 @@
    "XxAdd" :> 104 @@ "XxMul" :> 112 @@ "XInvert" :> 120 @@ "XbMul" :> 58 @@
    "ReadIo" :> 128 @@ "WriteIo" :> 66

\* a slip in the table: pop given the opcode of divine
opcode_clash(i) == IF i.op = "Pop" THEN 8 ELSE opcode_table[i.op]

\* a slip in the table: add given an opcode without the shrink-stack bit
opcode_bit_slip(i) == IF i.op = "Add" THEN 36 ELSE opcode_table[i.op]

opcode(i) == opcode_table[i.op]

opcode_b(i) == BFieldElement_new(opcode(i))

size(i) == IF i.op \in {"Push", "Dup", "Swap", "Call"} THEN 2 ELSE 1

\* OpStackElement -> BFieldElement
OpStackElement_into(e) == BFieldElement_new(e.st)

\* BFieldElement -> OpStackElement, for the sixteen stack registers only
OpStackElement_try_from(x) ==
    IF x.hi = 0 /\ x.lo < 16 THEN Ok(ST(x.lo)) ELSE Err("not an op stack element")

arg(i) ==
    CASE i.op \in {"Push", "Call"} -> Some(i.arg)
      [] i.op \in {"Dup", "Swap"}  -> Some(OpStackElement_into(i.arg))
      [] OTHER                     -> None

has_arg(i) == arg(i).some

shrinks_op_stack(i) ==
    \/ i.op \in {"Pop", "Skiz", "Assert"}
    \/ i.op \in {"WriteMem", "WriteIo"}
    \/ i.op \in {"Add", "Mul", "Eq", "XbMul"}
    \/ i.op \in {"And", "Xor", "Lt", "Pow"}

is_u32_instruction(i) ==
    i.op \in {"Split", "Lt", "And", "Xor", "Log2Floor", "Pow", "Div", "PopCount"}

\* change_arg without the conversion to an op-stack index: any argument is
\* accepted for dup and swap
change_arg_unchecked(i, new_arg) ==
    CASE i.op = "Push" -> Some(Push(new_arg))
      [] i.op = "Dup"  -> Some([op |-> "Dup", arg |-> [st |-> new_arg.lo]])
      [] i.op = "Swap" -> Some([op |-> "Swap", arg |-> [st |-> new_arg.lo]])
      [] i.op = "Call" -> Some(Call(new_arg))
      [] OTHER         -> None

change_arg(i, new_arg) ==
    LET maybe_ord_16 == OpStackElement_try_from(new_arg) IN
    CASE i.op = "Push" -> Some(Push(new_arg))
      [] i.op = "Dup"  -> IF maybe_ord_16.ok THEN Some([op |-> "Dup", arg |-> maybe_ord_16.val])
                                            ELSE None
      [] i.op = "Swap" -> IF maybe_ord_16.ok THEN Some([op |-> "Swap", arg |-> maybe_ord_16.val])
                                            ELSE None
      [] i.op = "Call" -> Some(Call(new_arg))
      [] OTHER         -> None

\* HashMap::insert over Instruction::iter(): a later entry replaces an earlier one
RECURSIVE InsertAll(_, _)
InsertAll(instructions, map) ==
    IF instructions = <<>> THEN map
    ELSE InsertAll(Tail(instructions),
                   (opcode(Head(instructions)) :> Head(instructions)) @@ map)

OPCODE_TO_INSTRUCTION_MAP == InsertAll(Instruction_iter, <<>>)

\* impl TryFrom<u32> for Instruction
Instruction_try_from(code) ==
    IF code \in DOMAIN OPCODE_TO_INSTRUCTION_MAP
    THEN Ok(OPCODE_TO_INSTRUCTION_MAP[code])
    ELSE Err("No instruction with opcode exists.")

\* the i'th instruction bit of an opcode
Bit(code, k) == (code \div (2 ^ k)) % 2

----------------------------------------------------------------------------
(* SpecIsa *)

\* arguments the instruction samples carry besides the default
ArgSample == {BFIELD_ZERO, BFieldElement_new(7), BeyondU32(5)}

InstructionSample ==
    ALL_INSTRUCTIONS
      \cup {Push(x) : x \in ArgSample} \cup {Call(x) : x \in ArgSample}
      \cup {Dup(k) : k \in {0, 15}} \cup {Swap(k) : k \in {0, 15}}

IsaIdle ==
    /\ isa_pc = "idle" /\ isa_instruction = I("Halt") /\ isa_other = I("Halt")
    /\ isa_opcode = 0 /\ isa_other_opcode = 0 /\ isa_back = Err("none")

CodecIdle ==
    /\ codec_pc = "idle" /\ source = <<>> /\ constructor = "none"
    /\ built = Err("none") /\ resolved = <<>>
    /\ encoded = <<>> /\ perturbation = "none" /\ decoded = Err("none")

TraceIdle ==
    /\ pc = "idle" /\ program = <<>> /\ aet = <<>> /\ state = <<>>
    /\ pending_call = None /\ result = Err("none") /\ issue_log = <<>>

TwiceIdle ==
    /\ run_no = 0 /\ given_input = <<>> /\ first_result = None /\ hash_seed = 0

DriversIdle ==
    /\ driver = "none" /\ dbg_pc = "idle" /\ initial_state = None
    /\ num_cycles_to_execute = None /\ dbg_state = <<>> /\ states = <<>>
    /\ max_cycles = 0 /\ dbg_result = Err("none") /\ stopped_by = "none"

CircuitsIdle ==
    /\ circuit_pc = "idle" /\ builder = <<>> /\ plan = <<>> /\ circuits = <<>> /\ last_call = <<>>
    /\ rewrites = 0
    /\ target_degree = 0 /\ num_base_cols = 0 /\ num_ext_cols = 0
    /\ base_constraints = <<>> /\ ext_constraints = <<>>

ProofIdle ==
    /\ proof_pc = "idle" /\ proof = <<>> /\ proof_height = Err("none")

TerminalsIdle ==
    /\ arg_pc = "idle" /\ symbols = <<>> /\ other_symbols = <<>>
    /\ initial = <<>> /\ challenge = <<>> /\ terminals = <<>> /\ other_terminals = <<>>

ProfileIdle == call_stack = <<>> /\ profile = <<>>

IdleBeyondIsa == CodecIdle /\ TraceIdle /\ TwiceIdle /\ DriversIdle /\ CircuitsIdle /\ ProofIdle
    /\ TerminalsIdle /\ ProfileIdle
IdleBeyondCodec == IsaIdle /\ TraceIdle /\ TwiceIdle /\ DriversIdle /\ CircuitsIdle /\ ProofIdle
    /\ TerminalsIdle /\ ProfileIdle
IdleBeyondTrace == IsaIdle /\ CodecIdle /\ TwiceIdle /\ DriversIdle /\ CircuitsIdle /\ ProofIdle
    /\ TerminalsIdle /\ ProfileIdle
IdleBeyondTwice == IsaIdle /\ CodecIdle /\ DriversIdle /\ CircuitsIdle /\ ProofIdle
    /\ TerminalsIdle /\ ProfileIdle
IdleBeyondDrivers == IsaIdle /\ CodecIdle /\ TraceIdle /\ TwiceIdle /\ CircuitsIdle /\ ProofIdle
    /\ TerminalsIdle /\ ProfileIdle
IdleBeyondCircuits ==
    IsaIdle /\ CodecIdle /\ TraceIdle /\ TwiceIdle /\ DriversIdle /\ ProofIdle /\ TerminalsIdle /\ ProfileIdle
IdleBeyondProof ==
    IsaIdle /\ CodecIdle /\ TraceIdle /\ TwiceIdle /\ DriversIdle /\ CircuitsIdle /\ TerminalsIdle /\ ProfileIdle
IdleBeyondTerminals ==
    IsaIdle /\ CodecIdle /\ TraceIdle /\ TwiceIdle /\ DriversIdle /\ CircuitsIdle /\ ProofIdle /\ ProfileIdle

InitIsa ==
    /\ isa_pc = "start"
    /\ isa_instruction \in InstructionSample
    /\ isa_other \in InstructionSample
    /\ isa_opcode = 0 /\ isa_other_opcode = 0 /\ isa_back = Err("none")
    /\ IdleBeyondIsa

\* i.opcode(), for both instructions
IsaOpcode ==
    /\ isa_pc = "start"
    /\ isa_opcode' = opcode(isa_instruction)
    /\ isa_other_opcode' = opcode(isa_other)
    /\ isa_pc' = "opcode"
    /\ UNCHANGED <<isa_instruction, isa_other, isa_back, beyondIsa>>

\* Instruction::try_from(opcode)
IsaTryFrom ==
    /\ isa_pc = "opcode"
    /\ isa_back' = Instruction_try_from(isa_opcode)
    /\ isa_pc' = "done"
    /\ UNCHANGED <<isa_instruction, isa_other, isa_opcode, isa_other_opcode,
                   beyondIsa>>

NextIsa == IsaOpcode \/ IsaTryFrom

SpecIsa == InitIsa /\ [][NextIsa]_vars

----------------------------------------------------------------------------
(* Claims about the instruction set *)

\* C4 as stated: for every instruction i, converting i.opcode() back yields
\* i, and two distinct instructions never share an opcode
C4_AsStated ==
    /\ isa_pc = "done" => isa_back = Ok(isa_instruction)
    /\ (isa_pc # "start" /\ isa_instruction # isa_other) => isa_opcode # isa_other_opcode

\* C4 amended: for every instruction taken with its default argument (the
\* members of ALL_INSTRUCTIONS) the conversion of its opcode yields it again,
\* for every instruction it yields the same variant with the default
\* argument, and two instructions share an opcode iff they are the same variant
C4_OpcodeBijectionOnVariants ==
    /\ (isa_pc = "done" /\ isa_instruction \in ALL_INSTRUCTIONS)
          => isa_back = Ok(isa_instruction)
    /\ isa_pc = "done"
          => /\ isa_back.ok
             /\ isa_back.val.op = isa_instruction.op
             /\ isa_back.val \in ALL_INSTRUCTIONS
    /\ isa_pc # "start"
          => ((isa_opcode = isa_other_opcode) <=> (isa_instruction.op = isa_other.op))

C4_Witness ==
    /\ isa_pc = "done"
    /\ isa_instruction = I("Divine")
    /\ isa_other = I("Pop")
    /\ isa_back = Ok(I("Divine"))

\* C5: bit 0 of the opcode is set iff the instruction has an argument, bit 1
\* iff it shrinks the op stack, bit 2 iff it is a u32 instruction
C5_OpcodeBits ==
    isa_pc # "start" =>
        /\ (Bit(isa_opcode, 0) = 1) <=> has_arg(isa_instruction)
        /\ (Bit(isa_opcode, 1) = 1) <=> shrinks_op_stack(isa_instruction)
        /\ (Bit(isa_opcode, 2) = 1) <=> is_u32_instruction(isa_instruction)

C5_Witness ==
    /\ isa_pc = "opcode"
    /\ isa_instruction = I("Lt")
    /\ isa_opcode = 6

----------------------------------------------------------------------------
(* instruction.rs: labelled instructions and label resolution *)

\* LabelledInstruction::Instruction(AnInstruction<String>): a call carries a label
LInstruction(i) == [kind |-> "Instruction", instr |-> i]
LCall(name) == LInstruction(Call([label |-> name]))
\* LabelledInstruction::Label(String)
Label(name) == [kind |-> "Label", name |-> name]

\* pass 1 of convert_labels: HashMap::insert replaces an earlier entry
RECURSIVE label_map_pass(_, _, _)
label_map_pass(src, label_map, instruction_pointer) ==
    IF src = <<>> THEN label_map
    ELSE LET li == Head(src) IN
         IF li.kind = "Label"
         THEN label_map_pass(Tail(src), (li.name :> instruction_pointer) @@ label_map,
                             instruction_pointer)
         ELSE label_map_pass(Tail(src), label_map, instruction_pointer + size(li.instr))

\* pass 1 with every instruction counted as one word
RECURSIVE label_map_pass_unit(_, _, _)
label_map_pass_unit(src, label_map, instruction_pointer) ==
    IF src = <<>> THEN label_map
    ELSE LET li == Head(src) IN
         IF li.kind = "Label"
         THEN label_map_pass_unit(Tail(src), (li.name :> instruction_pointer) @@ label_map,
                                  instruction_pointer)
         ELSE label_map_pass_unit(Tail(src), label_map, instruction_pointer + 1)

\* map_call_address with the closure of convert_labels_helper; the caller has
\* checked that the label is in the map (label_map.get(..).expect(..))
map_call_address(instr, label_map) ==
    IF instr.op = "Call"
    THEN Call(BFieldElement_new(label_map[instr.arg.label]))
    ELSE instr

\* whether the closure's expect() panics on this labelled instruction
label_not_found(li, label_map) ==
    /\ li.kind = "Instruction"
    /\ li.instr.op = "Call"
    /\ li.instr.arg.label \notin DOMAIN label_map

convert_labels_helper(li, label_map) ==
    IF li.kind = "Label" THEN <<>> ELSE <<map_call_address(li.instr, label_map)>>

RECURSIVE flat_map_helper(_, _)
flat_map_helper(src, label_map) ==
    IF src = <<>> THEN <<>>
    ELSE convert_labels_helper(Head(src), label_map) \o flat_map_helper(Tail(src), label_map)

Panic(msg) == [ok |-> FALSE, panic |-> msg]

convert_labels_with(src, label_map) ==
    IF \E k \in 1..Len(src) : label_not_found(src[k], label_map)
    THEN Panic("Label not found")
    ELSE Ok(flat_map_helper(src, label_map))

convert_labels_unit_size(src) == convert_labels_with(src, label_map_pass_unit(src, <<>>, 0))

\* Ok(Vec<Instruction>), or the panic of expect() on a call to an unknown label
convert_labels(src) == convert_labels_with(src, label_map_pass(src, <<>>, 0))

----------------------------------------------------------------------------
(* program.rs: Program *)

\* vec![instr; instr.size()]
Repeat(instr, n) == [k \in 1..n |-> instr]

RECURSIVE flat_map_repeat(_)
flat_map_repeat(instrs) ==
    IF instrs = <<>> THEN <<>>
    ELSE Repeat(Head(instrs), size(Head(instrs))) \o flat_map_repeat(Tail(instrs))

Program_new_from(converted) ==
    IF converted.ok THEN Ok(flat_map_repeat(converted.val)) ELSE converted

\* Program::new without the duplication of two-word instructions
Program_new_no_duplicates(src) == convert_labels(src)

\* Program::new: Ok(instructions), or the panic of label resolution
Program_new(src) == Program_new_from(convert_labels(src))

\* InstructionIter::next, run to the end: pos is the cursor (0-based)
RECURSIVE into_iter_from(_, _)
into_iter_from(instructions, pos) ==
    IF pos >= Len(instructions) THEN <<>>
    ELSE LET instruction == instructions[pos + 1] IN
         <<instruction>> \o into_iter_from(instructions, pos + size(instruction))

into_iter(instructions) == into_iter_from(instructions, 0)

RECURSIVE words_of(_)
words_of(instrs) ==
    IF instrs = <<>> THEN <<>>
    ELSE LET instruction == Head(instrs) IN
         (IF arg(instruction).some
          THEN <<opcode_b(instruction), arg(instruction).val>>
          ELSE <<opcode_b(instruction)>>) \o words_of(Tail(instrs))

\* to_bwords over every slot, the duplicates of two-word instructions included
to_bwords_every_slot(instructions) == words_of(instructions)

to_bwords(instructions) == words_of(into_iter(instructions))

len_bwords(instructions) == Len(instructions)

encode(instructions) ==
    <<BFieldElement_new(len_bwords(instructions))>> \o to_bwords(instructions)

\* the ensure_eq! macro of the crate: the enclosing function bails when the
\* two sides differ
ensure_eq_bails(left, right) == left # right

\* the while loop of decode without the check for a missing argument
RECURSIVE decode_loop_without_argument_check(_, _, _, _)
decode_loop_without_argument_check(sequence, program_length, idx, instructions) ==
    IF ~(idx < program_length)
    THEN IF ensure_eq_bails(idx, program_length)
         THEN Err("Expected idx to equal program_length.")
         ELSE Ok(instructions)
    ELSE IF ~(idx < Len(sequence)) THEN Panic("index out of bounds")
    ELSE IF ~FitsU32(sequence[idx + 1]) THEN Err("Invalid opcode")
    ELSE LET maybe_instruction == Instruction_try_from(sequence[idx + 1].lo) IN
         IF ~maybe_instruction.ok THEN maybe_instruction
         ELSE LET instruction == maybe_instruction.val IN
              IF ~has_arg(instruction)
              THEN decode_loop_without_argument_check(sequence, program_length, idx + size(instruction),
                               Append(instructions, instruction))
              ELSE IF ~(idx + 1 < Len(sequence)) THEN Panic("index out of bounds")
              ELSE LET changed == change_arg(instruction, sequence[idx + 2]) IN
                   IF ~changed.some THEN Err("Invalid argument for instruction")
                   ELSE decode_loop_without_argument_check(sequence, program_length, idx + size(instruction),
                                    instructions \o <<changed.val, changed.val>>)

\* the while loop of decode; idx and instructions as in the code (0-based
\* idx). Indexing a slice past its end panics.
RECURSIVE decode_loop(_, _, _, _)
decode_loop(sequence, program_length, idx, instructions) ==
    IF ~(idx < program_length)
    THEN IF ensure_eq_bails(idx, program_length)
         THEN Err("Expected idx to equal program_length.")
         ELSE Ok(instructions)
    ELSE IF ~(idx < Len(sequence)) THEN Panic("index out of bounds")
    ELSE IF ~FitsU32(sequence[idx + 1]) THEN Err("Invalid opcode")
    ELSE LET maybe_instruction == Instruction_try_from(sequence[idx + 1].lo) IN
         IF ~maybe_instruction.ok THEN maybe_instruction
         ELSE LET instruction == maybe_instruction.val IN
              IF ~has_arg(instruction)
              THEN decode_loop(sequence, program_length, idx + size(instruction),
                               Append(instructions, instruction))
              ELSE IF Len(instructions) + 1 >= program_length
              THEN Err("Missing argument for instruction")
              ELSE IF ~(idx + 1 < Len(sequence)) THEN Panic("index out of bounds")
              ELSE LET changed == change_arg(instruction, sequence[idx + 2]) IN
                   IF ~changed.some THEN Err("Invalid argument for instruction")
                   ELSE decode_loop(sequence, program_length, idx + size(instruction),
                                    instructions \o <<changed.val, changed.val>>)

\* Program::decode. program_length is sequence[0].value() as usize; once the
\* first ensure_eq! has passed it is the length of the rest of the sequence
decode(sequence) ==
    IF sequence = <<>> THEN Err("Sequence to decode must not be empty.")
    ELSE IF ensure_eq_bails(sequence[1], BFieldElement_new(Len(Tail(sequence))))
    THEN Err("Expected program_length to equal sequence.len().")
    ELSE decode_loop(Tail(sequence), Len(Tail(sequence)), 0, <<>>)

\* parser::parse, as far as labels go: a label defined twice and a call to a
\* label that is not defined are parse errors
labels_defined(src) == {src[k].name : k \in {j \in 1..Len(src) : src[j].kind = "Label"}}
has_duplicate_label(src) ==
    \E j, k \in 1..Len(src) :
        j < k /\ src[j].kind = "Label" /\ src[k].kind = "Label" /\ src[j].name = src[k].name
has_unknown_label(src) ==
    \E k \in 1..Len(src) : label_not_found(src[k], [n \in labels_defined(src) |-> 0])
parse(src) ==
    IF has_duplicate_label(src) THEN Err("duplicate label")
    ELSE IF has_unknown_label(src) THEN Err("missing label")
    ELSE Ok(src)

\* Program::from_code that hands the source to Program::new unparsed
from_code_unparsed(src) == Program_new(src)

\* Program::from_code: parse(code).map(|p| Program::new(..)).map_err(..)
from_code(src) ==
    LET parsed == parse(src) IN
    IF parsed.ok THEN Program_new(parsed.val) ELSE Err(parsed.err)

----------------------------------------------------------------------------
(* SpecCodec *)

SeqsUpTo(S, n) == UNION {[1..k -> S] : k \in 0..n}

SourceAlphabet ==
    { LInstruction(I("Halt")), LInstruction(Push(BFieldElement_new(7))),
      LInstruction(Push(BeyondU32(5))), LInstruction(Dup(15)),
      LCall("foo"), LCall("bar"), Label("foo"), Label("bar") }

Sources == SeqsUpTo(SourceAlphabet, MaxSourceLen)

\* halt, push, pop (or a header of 2), no opcode (or a header of 3), dup,
\* nop (or no stack register), and 2^32 + 1
RawSample ==
    { BFieldElement_new(0), BFieldElement_new(1), BFieldElement_new(2),
      BFieldElement_new(3), BFieldElement_new(9), BFieldElement_new(16),
      BeyondU32(1) }

RawSequences == SeqsUpTo(RawSample, MaxRawLen + 1)

\* values that are no opcode: one that fits a u32, one that does not and whose
\* low half is the opcode of push
InvalidOpcodes == {BFieldElement_new(3), BeyondU32(1)}

\* values that are no stack register
InvalidStackArgs == {BFieldElement_new(16), BeyondU32(3)}

\* the addresses at which the instructions of a program start
RECURSIVE starts_from(_, _)
starts_from(instructions, pos) ==
    IF pos >= Len(instructions) THEN {}
    ELSE {pos} \cup starts_from(instructions, pos + size(instructions[pos + 1]))

InstructionStarts(instructions) == starts_from(instructions, 0)

InitCodec ==
    /\ \/ /\ codec_pc = "source"
          /\ source \in Sources
          /\ encoded = <<>>
          /\ perturbation = "none"
       \/ /\ codec_pc = "encoded"
          /\ source = <<>>
          /\ encoded \in RawSequences
          /\ perturbation = "raw"
    /\ constructor = "none"
    /\ built = Err("none") /\ resolved = Err("none") /\ decoded = Err("none")
    /\ IdleBeyondCodec

\* Program::new(source)
ProgramNew ==
    /\ codec_pc = "source"
    /\ constructor' = "new"
    /\ resolved' = convert_labels(source)
    /\ built' = Program_new(source)
    /\ codec_pc' = "built"
    /\ UNCHANGED <<source, encoded, perturbation, decoded, beyondCodec>>

\* Program::from_code(source)
FromCode ==
    /\ codec_pc = "source"
    /\ constructor' = "from_code"
    /\ resolved' = IF parse(source).ok THEN convert_labels(source) ELSE Err("not reached")
    /\ built' = from_code(source)
    /\ codec_pc' = "built"
    /\ UNCHANGED <<source, encoded, perturbation, decoded, beyondCodec>>

\* program.encode()
Encode ==
    /\ codec_pc = "built"
    /\ built.ok
    /\ encoded' = encode(built.val)
    /\ codec_pc' = "encoded"
    /\ UNCHANGED <<source, constructor, built, resolved, perturbation, decoded,
                   beyondCodec>>

\* encoded[0] += 1
PerturbHeader ==
    /\ codec_pc = "encoded" /\ perturbation = "none"
    /\ encoded' = [encoded EXCEPT ![1] = BFieldElement_new(encoded[1].lo + 1)]
    /\ perturbation' = "header"
    /\ UNCHANGED <<codec_pc, source, constructor, built, resolved, decoded,
                   beyondCodec>>

\* the opcode of one instruction replaced by a value that is no opcode
PerturbOpcode ==
    /\ codec_pc = "encoded" /\ perturbation = "none"
    /\ \E a \in InstructionStarts(built.val), v \in InvalidOpcodes :
           encoded' = [encoded EXCEPT ![a + 2] = v]
    /\ perturbation' = "opcode"
    /\ UNCHANGED <<codec_pc, source, constructor, built, resolved, decoded,
                   beyondCodec>>

\* the argument of the last instruction cut off, the header adjusted
DropLastArgument ==
    /\ codec_pc = "encoded" /\ perturbation = "none"
    /\ Len(built.val) > 0
    /\ has_arg(built.val[Len(built.val)])
    /\ encoded' = <<BFieldElement_new(Len(built.val) - 1)>>
                      \o SubSeq(encoded, 2, Len(encoded) - 1)
    /\ perturbation' = "truncate"
    /\ UNCHANGED <<codec_pc, source, constructor, built, resolved, decoded,
                   beyondCodec>>

\* the argument of one dup or swap replaced by a value above 15
PerturbStackArgument ==
    /\ codec_pc = "encoded" /\ perturbation = "none"
    /\ \E a \in InstructionStarts(built.val), v \in InvalidStackArgs :
           /\ built.val[a + 1].op \in {"Dup", "Swap"}
           /\ encoded' = [encoded EXCEPT ![a + 3] = v]
    /\ perturbation' = "arg"
    /\ UNCHANGED <<codec_pc, source, constructor, built, resolved, decoded,
                   beyondCodec>>

\* Program::decode(&encoded)
Decode ==
    /\ codec_pc = "encoded"
    /\ decoded' = decode(encoded)
    /\ codec_pc' = "decoded"
    /\ UNCHANGED <<source, constructor, built, resolved, encoded, perturbation,
                   beyondCodec>>

NextCodec ==
    \/ ProgramNew \/ FromCode \/ Encode
    \/ PerturbHeader \/ PerturbOpcode \/ DropLastArgument \/ PerturbStackArgument
    \/ Decode

SpecCodec == InitCodec /\ [][NextCodec]_vars

----------------------------------------------------------------------------
(* Claims about Program and label resolution *)

\* C2: for every program p built by Program::new, decode(encode(p)) succeeds
\* and returns a program equal to p
C2_DecodeEncodeRoundTrip ==
    (codec_pc = "decoded" /\ perturbation = "none") => decoded = Ok(built.val)

C2_Witness ==
    /\ codec_pc = "decoded" /\ perturbation = "none"
    /\ constructor = "new"
    /\ source = <<LCall("foo"), LInstruction(Push(BeyondU32(5))), Label("foo")>>
    /\ decoded.ok
    /\ Len(decoded.val) = 4

\* C3: decode returns an error for the empty sequence, for a sequence whose
\* length header differs from the number of following elements (encode(p)
\* with its first element incremented among them), for an element at an
\* instruction's place that is no opcode, for a last instruction whose
\* argument is missing, and for an argument of dup or swap above 15
C3_DecodeErrors ==
    codec_pc = "decoded" =>
        /\ encoded = <<>> => ~decoded.ok
        /\ (encoded # <<>> /\ encoded[1] # BFieldElement_new(Len(encoded) - 1))
              => ~decoded.ok
        /\ perturbation \in {"header", "opcode", "truncate", "arg"} => ~decoded.ok

C3_Witness ==
    /\ codec_pc = "decoded"
    /\ perturbation = "arg"
    /\ decoded = Err("Invalid argument for instruction")

SumOfSizes(instrs) ==
    LET RECURSIVE sum(_)
        sum(k) == IF k = 0 THEN 0 ELSE size(instrs[k]) + sum(k - 1)
    IN sum(Len(instrs))

\* every instruction starts at the vector index that is its address, a
\* two-word instruction fills both of its slots, and the walk ends at L
RECURSIVE laid_out_from(_, _)
laid_out_from(instructions, pos) ==
    IF pos = Len(instructions) THEN TRUE
    ELSE LET s == size(instructions[pos + 1]) IN
         /\ pos + s <= Len(instructions)
         /\ \A k \in 1..s : instructions[pos + k] = instructions[pos + 1]
         /\ laid_out_from(instructions, pos + s)

LayoutInvariant(instructions) ==
    /\ laid_out_from(instructions, 0)
    /\ Len(instructions) = SumOfSizes(into_iter(instructions))

\* C6: every Program of Program::new and of a successful decode has the
\* layout invariant: its length is the sum of the sizes of its instructions
\* and a two-word instruction at address i is stored at P[i] and P[i+1]
C6_ProgramLayout ==
    /\ (codec_pc \in {"built", "encoded", "decoded"} /\ built.ok)
          => /\ LayoutInvariant(built.val)
             /\ Len(built.val) = SumOfSizes(resolved.val)
    /\ (codec_pc = "decoded" /\ decoded.ok) => LayoutInvariant(decoded.val)

C6_Witness ==
    /\ codec_pc = "decoded" /\ perturbation = "raw"
    /\ decoded = Ok(<<Dup(2), Dup(2), I("Halt")>>)

LabelIndex(src, name) == CHOOSE k \in 1..Len(src) : src[k] = Label(name)

InstructionsOf(src) ==
    LET RECURSIVE pick(_)
        pick(k) == IF k > Len(src) THEN <<>>
                   ELSE (IF src[k].kind = "Label" THEN <<>> ELSE <<src[k].instr>>)
                            \o pick(k + 1)
    IN pick(1)

\* the sum of size() of all instructions that precede the definition of name
AddressOfLabel(src, name) ==
    SumOfSizes(InstructionsOf(SubSeq(src, 1, LabelIndex(src, name) - 1)))

ExpectedResolution(src) ==
    LET instrs == InstructionsOf(src) IN
    [k \in 1..Len(instrs) |->
        IF instrs[k].op = "Call"
        THEN Call(BFieldElement_new(AddressOfLabel(src, instrs[k].arg.label)))
        ELSE instrs[k]]

\* C7: with every label defined once and every call target defined, label
\* resolution emits the instructions in their order without the labels,
\* leaves every other instruction as it is and rewrites Call(label) to
\* Call(a), a the sum of the sizes of the instructions before the label
C7_LabelResolution ==
    (/\ codec_pc \in {"built", "encoded", "decoded"}
     /\ constructor = "new"
     /\ ~has_duplicate_label(source)
     /\ ~has_unknown_label(source))
        => resolved = Ok(ExpectedResolution(source))

C7_Witness ==
    /\ codec_pc = "built" /\ constructor = "new"
    /\ source = <<LInstruction(Dup(15)), Label("foo"), LCall("foo")>>
    /\ resolved = Ok(<<Dup(15), Call(BFieldElement_new(2))>>)

\* C8: building a program from a source that defines a label twice fails
\* with an error, and no Program is produced
C8_DuplicateLabelFails ==
    (/\ codec_pc \in {"built", "encoded", "decoded"}
     /\ constructor = "from_code"
     /\ has_duplicate_label(source))
        => ~built.ok

C8_Witness ==
    /\ codec_pc = "built" /\ constructor = "from_code"
    /\ source = <<LCall("foo"), Label("foo"), Label("foo")>>
    /\ built = Err("duplicate label")

----------------------------------------------------------------------------
(* The hash primitive the AET consumes (Tip5 of the field/hash collaborator), *)
(* kept as a small deterministic permutation with the shape of the original  *)

STATE_SIZE == 16
RATE == 10
NUM_SPLIT_AND_LOOKUP == 4
NUM_ROUNDS == 5
ToyModulus == 100003

\* one round of the stand-in permutation
Tip5_round(st, r) ==
    [k \in 1..STATE_SIZE |->
        BFieldElement_new((3 * st[k].lo + st[(k % STATE_SIZE) + 1].lo + st[k].hi + r + 1)
                              % ToyModulus)]

\* Tip5::trace: the state before the first round and after each round
RECURSIVE Tip5_trace_from(_, _)
Tip5_trace_from(st, r) ==
    IF r = NUM_ROUNDS THEN <<st>>
    ELSE <<st>> \o Tip5_trace_from(Tip5_round(st, r), r + 1)

Tip5_trace(st) == Tip5_trace_from(st, 0)

\* Tip5::init().state
Tip5_init == [k \in 1..STATE_SIZE |-> BFIELD_ZERO]

\* the state with its first RATE elements overwritten by the chunk
Absorbing(st, chunk) == [k \in 1..STATE_SIZE |-> IF k <= Len(chunk) THEN chunk[k] ELSE st[k]]

\* HashTable::base_field_element_into_16_bit_limbs
base_field_element_into_16_bit_limbs(x) ==
    <<x.lo % 65536, x.lo \div 65536, x.hi % 65536, x.hi \div 65536>>

\* HashTable::trace_row_to_table_row: round number, state, and the CI column
trace_row_to_table_row(st, round_number) ==
    [round_no |-> round_number, st |-> st, CI |-> BFIELD_ZERO]

\* HashTable::trace_to_table_rows
trace_to_table_rows(trace) ==
    [r \in 1..Len(trace) |-> trace_row_to_table_row(trace[r], r - 1)]

\* column CI of every row filled with one value
fill_CI(rows, value) == [r \in 1..Len(rows) |-> [rows[r] EXCEPT !.CI = value]]

----------------------------------------------------------------------------
(* aet.rs: AlgebraicExecutionTrace *)

Inc(map, key) ==
    IF key \in DOMAIN map THEN [map EXCEPT ![key] = @ + 1] ELSE (key :> 1) @@ map

\* the limbs looked up for one row: the 16-bit limbs of its first
\* NUM_SPLIT_AND_LOOKUP elements, in order
limbs_of_row(row) ==
    [j \in 1..(4 * NUM_SPLIT_AND_LOOKUP) |->
        base_field_element_into_16_bit_limbs(row[((j - 1) \div 4) + 1])[((j - 1) % 4) + 1]]

\* the limbs looked up for a trace: those of every row but the last
limbs_of_trace(trace) ==
    [j \in 1..(4 * NUM_SPLIT_AND_LOOKUP * (Len(trace) - 1)) |->
        limbs_of_row(trace[((j - 1) \div (4 * NUM_SPLIT_AND_LOOKUP)) + 1])
            [((j - 1) % (4 * NUM_SPLIT_AND_LOOKUP)) + 1]]

\* The effect of looking the limbs up one after the other: an occupied
\* cascade entry is incremented per lookup; a vacant one is inserted with 1
\* and, at that moment only, the 8-bit lookup table is incremented at the
\* limb's low byte and at its high byte.
increase_for_limbs(a, limbs) ==
    LET occupied == DOMAIN a.cascade_table_lookup_multiplicities
        vacant == {limbs[j] : j \in DOMAIN limbs} \ occupied
        times(limb) == Cardinality({j \in DOMAIN limbs : limbs[j] = limb})
    IN [a EXCEPT
          !.cascade_table_lookup_multiplicities =
              [limb \in occupied \cup vacant |->
                  (IF limb \in occupied THEN @[limb] ELSE 0) + times(limb)],
          !.lookup_table_lookup_multiplicities =
              [b \in DOMAIN @ |->
                  @[b] + Cardinality({limb \in vacant : limb % 256 = b})
                       + Cardinality({limb \in vacant : (limb \div 256) % 256 = b})]]

increase_lookup_multiplicities_for_state_element(a, state_element) ==
    increase_for_limbs(a, base_field_element_into_16_bit_limbs(state_element))

increase_lookup_multiplicities_for_row(a, row) ==
    increase_for_limbs(a, limbs_of_row(row))

\* lookups performed for every row of the trace, the last one included
increase_lookup_multiplicities_for_every_row(a, trace) ==
    increase_for_limbs(a, limbs_of_trace(Append(trace, trace[1])))

\* no lookups are performed for the last row of the trace
increase_lookup_multiplicities(a, trace) ==
    increase_for_limbs(a, limbs_of_trace(trace))

\* padded_program_length that pads with zeros up to the next multiple of RATE
\* even when the minimal length is a multiple already
padded_program_length_always_padding(instructions) ==
    LET min_padded_len == len_bwords(instructions) + 1
    IN min_padded_len + (RATE - (min_padded_len % RATE))

padded_program_length(instructions) ==
    LET min_padded_len == len_bwords(instructions) + 1
        remainder_len == min_padded_len % RATE
        num_zeros_to_add == IF remainder_len = 0 THEN 0 ELSE RATE - remainder_len
    IN min_padded_len + num_zeros_to_add

hash_input_pad_program(instructions) ==
    LET words == to_bwords(instructions) IN
    [k \in 1..padded_program_length(instructions) |->
        IF k <= Len(words) THEN words[k]
        ELSE IF k = Len(words) + 1 THEN BFIELD_ONE
        ELSE BFIELD_ZERO]

\* the loop of fill_program_hash_trace with a sponge that starts afresh for
\* every chunk
RECURSIVE absorb_chunks_from_fresh_sponge(_, _, _)
absorb_chunks_from_fresh_sponge(a, sponge, padded) ==
    IF padded = <<>> THEN [aet |-> a, sponge |-> sponge]
    ELSE LET n == IF Len(padded) < RATE THEN Len(padded) ELSE RATE
             hash_trace == Tip5_trace(Absorbing(Tip5_init, SubSeq(padded, 1, n)))
             trace_addendum == trace_to_table_rows(hash_trace)
             counted == increase_lookup_multiplicities(a, hash_trace)
         IN absorb_chunks_from_fresh_sponge(
                [counted EXCEPT !.program_hash_trace = @ \o trace_addendum],
                hash_trace[Len(hash_trace)],
                SubSeq(padded, n + 1, Len(padded)))

\* the loop of fill_program_hash_trace over the chunks of the padded program
RECURSIVE absorb_chunks(_, _, _)
absorb_chunks(a, sponge, padded) ==
    IF padded = <<>> THEN [aet |-> a, sponge |-> sponge]
    ELSE LET n == IF Len(padded) < RATE THEN Len(padded) ELSE RATE
             hash_trace == Tip5_trace(Absorbing(sponge, SubSeq(padded, 1, n)))
             trace_addendum == trace_to_table_rows(hash_trace)
             counted == increase_lookup_multiplicities(a, hash_trace)
         IN absorb_chunks(
                [counted EXCEPT !.program_hash_trace = @ \o trace_addendum],
                hash_trace[Len(hash_trace)],
                SubSeq(padded, n + 1, Len(padded)))

fill_program_hash_trace(a) ==
    LET filled == absorb_chunks(a, Tip5_init, hash_input_pad_program(a.program)).aet
    IN [filled EXCEPT !.program_hash_trace = fill_CI(@, opcode_b(I("Hash")))]

AlgebraicExecutionTrace_new(instructions) ==
    fill_program_hash_trace(
        [ program |-> instructions,
          instruction_multiplicities |-> [k \in 1..len_bwords(instructions) |-> 0],
          processor_trace |-> <<>>,
          op_stack_underflow_trace |-> <<>>,
          ram_trace |-> <<>>,
          program_hash_trace |-> <<>>,
          hash_trace |-> <<>>,
          sponge_trace |-> <<>>,
          u32_entries |-> <<>>,
          cascade_table_lookup_multiplicities |-> <<>>,
          lookup_table_lookup_multiplicities |-> [b \in 0..255 |-> 0] ])

\* VMState::to_processor_row
to_processor_row(s) ==
    [clk |-> s.cycle_count, ip |-> s.instruction_pointer, op_stack |-> s.op_stack]

\* the pair (what the call returned, the AET it left behind)
Outcome(res, a) == [res |-> res, aet |-> a]

\* record_instruction_lookup that takes the last word of the program for
\* out of bounds
record_instruction_lookup_below_last(a, instruction_pointer) ==
    IF instruction_pointer >= Len(a.instruction_multiplicities) - 1
    THEN Outcome(Err("InstructionPointerOverflow"), a)
    ELSE Outcome(Ok("unit"),
                 [a EXCEPT !.instruction_multiplicities[instruction_pointer + 1] = @ + 1])

record_instruction_lookup(a, instruction_pointer) ==
    IF instruction_pointer >= Len(a.instruction_multiplicities)
    THEN Outcome(Err("InstructionPointerOverflow"), a)
    ELSE Outcome(Ok("unit"),
                 [a EXCEPT !.instruction_multiplicities[instruction_pointer + 1] = @ + 1])

append_state_to_processor_trace(a, s) ==
    [a EXCEPT !.processor_trace = Append(@, to_processor_row(s))]

\* record_state that pushes the processor row before the bounds check
record_state_row_first(a, s) ==
    record_instruction_lookup(append_state_to_processor_trace(a, s), s.instruction_pointer)

record_state(a, s) ==
    LET looked_up == record_instruction_lookup(a, s.instruction_pointer) IN
    IF ~looked_up.res.ok THEN looked_up
    ELSE Outcome(Ok("unit"), append_state_to_processor_trace(looked_up.aet, s))

append_hash_trace(a, trace) ==
    LET counted == increase_lookup_multiplicities(a, trace)
        hash_trace_addendum == fill_CI(trace_to_table_rows(trace), opcode_b(I("Hash")))
    IN [counted EXCEPT !.hash_trace = @ \o hash_trace_addendum]

append_initial_sponge_state(a) ==
    LET hash_table_row ==
            [trace_row_to_table_row(Tip5_init, 0) EXCEPT !.CI = opcode_b(I("AbsorbInit"))]
    IN [a EXCEPT !.sponge_trace = Append(@, hash_table_row)]

\* Ok(aet), or the panic of the assert! on the instruction
append_sponge_trace(a, instruction, trace) ==
    IF instruction.op \notin {"Absorb", "Squeeze"}
    THEN Outcome(Panic("assertion failed: matches!(instruction, ..)"), a)
    ELSE LET counted == increase_lookup_multiplicities(a, trace)
             sponge_trace_addendum ==
                 fill_CI(trace_to_table_rows(trace), opcode_b(instruction))
         IN Outcome(Ok("unit"), [counted EXCEPT !.sponge_trace = @ \o sponge_trace_addendum])

\* record_u32_table_entry whose key depends on the hasher state of the map
record_u32_table_entry_by_hasher(a, u32_entry) ==
    [a EXCEPT !.u32_entries =
        Inc(@, [u32_entry EXCEPT !.left_operand = BFieldElement_new(@.lo + hash_seed)])]

record_u32_table_entry(a, u32_entry) ==
    [a EXCEPT !.u32_entries = Inc(@, u32_entry)]

\* record_op_stack_entry that puts the new row in front
record_op_stack_entry_in_front(a, op_stack_entry) ==
    [a EXCEPT !.op_stack_underflow_trace = <<op_stack_entry>> \o @]

record_op_stack_entry(a, op_stack_entry) ==
    [a EXCEPT !.op_stack_underflow_trace = Append(@, op_stack_entry)]

record_ram_call(a, ram_call) ==
    [a EXCEPT !.ram_trace = Append(@, ram_call)]

\* record_co_processor_call that appends every Tip5 trace to the hash trace
record_co_processor_call_by_trace(a, call) ==
    CASE call.kind = "Tip5Trace" ->
            Outcome(Ok("unit"), append_hash_trace(a, call.trace))
      [] call.kind = "SpongeStateReset" ->
            Outcome(Ok("unit"), append_initial_sponge_state(a))
      [] call.kind = "U32Call" ->
            Outcome(Ok("unit"), record_u32_table_entry(a, call.entry))
      [] call.kind = "OpStackCall" ->
            Outcome(Ok("unit"), record_op_stack_entry(a, call.entry))
      [] call.kind = "RamCall" ->
            Outcome(Ok("unit"), record_ram_call(a, call.entry))

record_co_processor_call(a, call) ==
    CASE call.kind = "Tip5Trace" /\ call.instruction = I("Hash") ->
            Outcome(Ok("unit"), append_hash_trace(a, call.trace))
      [] call.kind = "SpongeStateReset" ->
            Outcome(Ok("unit"), append_initial_sponge_state(a))
      [] call.kind = "Tip5Trace" /\ call.instruction # I("Hash") ->
            append_sponge_trace(a, call.instruction, call.trace)
      [] call.kind = "U32Call" ->
            Outcome(Ok("unit"), record_u32_table_entry(a, call.entry))
      [] call.kind = "OpStackCall" ->
            Outcome(Ok("unit"), record_op_stack_entry(a, call.entry))
      [] call.kind = "RamCall" ->
            Outcome(Ok("unit"), record_ram_call(a, call.entry))

----------------------------------------------------------------------------
(* The interpreter (VMState of the vm module): fetch the instruction at ip,  *)
(* perform its effect, update ip, increment clk, emit at most one             *)
(* co-processor call. The instructions below are the ones the traced          *)
(* programs use.                                                              *)

VMState_new(instructions, public_input, secret_input) ==
    [ program |-> instructions,
      instruction_pointer |-> 0,
      cycle_count |-> 0,
      op_stack |-> <<>>,
      jump_stack |-> <<>>,
      ram |-> <<>>,
      sponge_state |-> None,
      public_input |-> public_input,
      secret_input |-> secret_input,
      public_output |-> <<>>,
      halting |-> FALSE ]

current_instruction(s) ==
    IF s.instruction_pointer >= Len(s.program)
    THEN Err("InstructionPointerOverflow")
    ELSE Ok(s.program[s.instruction_pointer + 1])

Tip5Trace(instruction, trace) ==
    [kind |-> "Tip5Trace", instruction |-> instruction, trace |-> trace]
SpongeStateReset == [kind |-> "SpongeStateReset"]
U32Call(instruction, lhs, rhs) ==
    [kind |-> "U32Call",
     entry |-> [instruction |-> instruction, left_operand |-> lhs, right_operand |-> rhs]]
OpStackCall(s, io, value) ==
    [kind |-> "OpStackCall",
     entry |-> [clk |-> s.cycle_count, io |-> io, value |-> value]]
RamCall(s, pointer, value, is_write) ==
    [kind |-> "RamCall",
     entry |-> [clk |-> s.cycle_count, ram_pointer |-> pointer, value |-> value,
                is_write |-> is_write]]

Top(stack) == stack[Len(stack)]
Popped(stack) == SubSeq(stack, 1, Len(stack) - 1)

\* ip advanced by n words and clk by one
Advanced(s, n) ==
    [s EXCEPT !.instruction_pointer = @ + n, !.cycle_count = @ + 1]

Stepped(res, s) == [res |-> res, state |-> s]

\* the hash input of the fixed-length domain: the element at the front, the
\* capacity part set to one
HashInput(x) ==
    [k \in 1..STATE_SIZE |-> IF k = 1 THEN x ELSE IF k > RATE THEN BFIELD_ONE ELSE BFIELD_ZERO]

step(s) ==
    LET fetched == current_instruction(s) IN
    IF ~fetched.ok THEN Stepped(fetched, s)
    ELSE
    LET instruction == fetched.val
        op == instruction.op
        stack == s.op_stack
        needs == CASE op \in {"Pop", "Skiz", "Assert", "WriteIo", "Hash", "Absorb", "ReadMem"} -> 1
                   [] op \in {"Lt", "WriteMem"} -> 2
                   [] OTHER -> 0
    IN
    IF Len(stack) < needs THEN Stepped(Err("OpStackTooShallow"), s)
    ELSE
    CASE op = "Halt" ->
            Stepped(Ok(None), [Advanced(s, 1) EXCEPT !.halting = TRUE])
      [] op = "Nop" ->
            Stepped(Ok(None), Advanced(s, 1))
      [] op = "Push" ->
            Stepped(Ok(Some(OpStackCall(s, "write", instruction.arg))),
                    [Advanced(s, 2) EXCEPT !.op_stack = Append(stack, instruction.arg)])
      [] op = "Pop" ->
            Stepped(Ok(Some(OpStackCall(s, "read", Top(stack)))),
                    [Advanced(s, 1) EXCEPT !.op_stack = Popped(stack)])
      [] op = "Skiz" ->
            IF Top(stack) # BFIELD_ZERO
            THEN Stepped(Ok(Some(OpStackCall(s, "read", Top(stack)))),
                         [Advanced(s, 1) EXCEPT !.op_stack = Popped(stack)])
            ELSE IF s.instruction_pointer + 1 >= Len(s.program)
            THEN Stepped(Err("InstructionPointerOverflow"), s)
            ELSE Stepped(Ok(Some(OpStackCall(s, "read", Top(stack)))),
                         [Advanced(s, 1 + size(s.program[s.instruction_pointer + 2]))
                             EXCEPT !.op_stack = Popped(stack)])
      [] op = "Call" ->
            Stepped(Ok(None),
                    [s EXCEPT !.jump_stack =
                                  Append(@, [origin |-> s.instruction_pointer + 2,
                                             destination |-> instruction.arg.lo]),
                              !.instruction_pointer = instruction.arg.lo,
                              !.cycle_count = @ + 1])
      [] op = "Return" ->
            IF s.jump_stack = <<>> THEN Stepped(Err("JumpStackIsEmpty"), s)
            ELSE Stepped(Ok(None),
                         [s EXCEPT !.instruction_pointer = Top(s.jump_stack).origin,
                                   !.jump_stack = Popped(@),
                                   !.cycle_count = @ + 1])
      [] op = "Recurse" ->
            IF s.jump_stack = <<>> THEN Stepped(Err("JumpStackIsEmpty"), s)
            ELSE Stepped(Ok(None),
                         [s EXCEPT !.instruction_pointer = Top(s.jump_stack).destination,
                                   !.cycle_count = @ + 1])
      [] op = "Assert" ->
            IF Top(stack) # BFIELD_ONE THEN Stepped(Err("AssertionFailed"), s)
            ELSE Stepped(Ok(Some(OpStackCall(s, "read", Top(stack)))),
                         [Advanced(s, 1) EXCEPT !.op_stack = Popped(stack)])
      [] op = "ReadIo" ->
            IF s.public_input = <<>> THEN Stepped(Err("public input exhausted"), s)
            ELSE Stepped(Ok(Some(OpStackCall(s, "write", Head(s.public_input)))),
                         [Advanced(s, 1) EXCEPT !.op_stack = Append(stack, Head(s.public_input)),
                                               !.public_input = Tail(@)])
      [] op = "WriteIo" ->
            Stepped(Ok(Some(OpStackCall(s, "read", Top(stack)))),
                    [Advanced(s, 1) EXCEPT !.op_stack = Popped(stack),
                                          !.public_output = Append(@, Top(stack))])
      [] op = "Lt" ->
            LET lhs == Top(stack)
                rhs == Top(Popped(stack))
            IN IF ~FitsU32(lhs) \/ ~FitsU32(rhs)
               THEN Stepped(Err("FailedU32Conversion"), s)
               ELSE Stepped(Ok(Some(U32Call(instruction, lhs, rhs))),
                            [Advanced(s, 1) EXCEPT !.op_stack =
                                Append(Popped(Popped(stack)),
                                       IF lhs.lo < rhs.lo THEN BFIELD_ONE ELSE BFIELD_ZERO)])
      [] op = "WriteMem" ->
            LET value == Top(stack)
                pointer == Top(Popped(stack))
            IN Stepped(Ok(Some(RamCall(s, pointer, value, TRUE))),
                       [Advanced(s, 1) EXCEPT !.op_stack = Popped(stack),
                                             !.ram = (pointer :> value) @@ @])
      [] op = "ReadMem" ->
            LET pointer == Top(stack)
                value == IF pointer \in DOMAIN s.ram THEN s.ram[pointer] ELSE BFIELD_ZERO
            IN Stepped(Ok(Some(RamCall(s, pointer, value, FALSE))),
                       [Advanced(s, 1) EXCEPT !.op_stack = Append(stack, value)])
      [] op = "Hash" ->
            LET trace == Tip5_trace(HashInput(Top(stack)))
            IN Stepped(Ok(Some(Tip5Trace(instruction, trace))),
                       [Advanced(s, 1) EXCEPT !.op_stack =
                           Append(Popped(stack), trace[Len(trace)][1])])
      [] op = "AbsorbInit" ->
            Stepped(Ok(Some(SpongeStateReset)),
                    [Advanced(s, 1) EXCEPT !.sponge_state = Some(Tip5_init)])
      [] op = "Absorb" ->
            IF ~s.sponge_state.some THEN Stepped(Err("SpongeNotInitialized"), s)
            ELSE LET trace == Tip5_trace(Absorbing(s.sponge_state.val, <<Top(stack)>>))
                 IN Stepped(Ok(Some(Tip5Trace(instruction, trace))),
                            [Advanced(s, 1) EXCEPT !.op_stack = Popped(stack),
                                                  !.sponge_state = Some(trace[Len(trace)])])
      [] op = "Squeeze" ->
            IF ~s.sponge_state.some THEN Stepped(Err("SpongeNotInitialized"), s)
            ELSE LET trace == Tip5_trace(s.sponge_state.val)
                 IN Stepped(Ok(Some(Tip5Trace(instruction, trace))),
                            [Advanced(s, 1) EXCEPT !.op_stack = Append(stack, s.sponge_state.val[1]),
                                                  !.sponge_state = Some(trace[Len(trace)])])
      [] OTHER ->
            Stepped(Err("instruction outside the modelled set"), s)

\* VMState::step is not atomic: when it fails, the state it was called on may
\* be left as it was or with part of the instruction's effect applied
AfterFailedStep(s) ==
    {s, [s EXCEPT !.op_stack = IF @ = <<>> THEN @ ELSE Popped(@)]}

----------------------------------------------------------------------------
(* Spec: program.rs, trace_execution *)

LI(op) == LInstruction(I(op))
LPush(n) == LInstruction(Push(BFieldElement_new(n)))

TracedSources ==
    { <<LI("Halt")>>,
      <<LI("Nop")>>,
      <<LI("Nop"), LI("Nop"), LI("Halt")>>,
      <<LPush(1), LI("Assert"), LI("Halt")>>,
      <<LPush(0), LI("Assert"), LI("Halt")>>,
      <<LI("Return")>>,
      <<LI("ReadIo"), LI("Skiz"), LCall("f"), LI("Halt"), Label("f"), LI("Nop"), LI("Return")>>,
      <<LCall("loop"), LI("Halt"), Label("loop"), LI("ReadIo"), LI("Skiz"), LI("Recurse"),
        LI("Return")>>,
      <<LCall("spin"), Label("spin"), LI("Recurse")>>,
      <<LI("AbsorbInit"), LI("ReadIo"), LI("Absorb"), LI("Squeeze"), LI("Hash"),
        LI("WriteIo"), LI("Halt")>>,
      <<LPush(5), LI("ReadIo"), LI("Lt"), LPush(3), LPush(258), LI("Lt"), LI("Pop"),
        LI("Halt")>>,
      <<LPush(4), LI("ReadIo"), LI("WriteMem"), LI("ReadMem"), LI("WriteIo"), LI("Halt")>>,
      <<LI("ReadIo"), LI("Skiz")>> }

PublicInputs ==
    { <<>>,
      <<BFIELD_ZERO>>,
      <<BFIELD_ONE, BFIELD_ZERO>>,
      <<BFIELD_ONE, BFIELD_ONE, BFIELD_ZERO>> }

Init ==
    /\ \E src \in TracedSources, public_input \in PublicInputs :
          /\ program = Program_new(src).val
          /\ aet = AlgebraicExecutionTrace_new(program)
          /\ state = VMState_new(program, public_input, <<>>)
    /\ pc = "loop"
    /\ pending_call = None
    /\ result = Err("none")
    /\ issue_log = <<>>
    /\ IdleBeyondTrace

\* aet.record_state(&state)?
RecordState ==
    /\ pc = "loop" /\ ~state.halting
    /\ LET outcome == record_state(aet, state) IN
          /\ aet' = outcome.aet
          /\ IF outcome.res.ok
             THEN /\ pc' = "lookup"
                  /\ issue_log' = Append(issue_log, [kind |-> "state", state |-> state])
                  /\ UNCHANGED result
             ELSE /\ pc' = "done"
                  /\ result' = outcome.res
                  /\ UNCHANGED issue_log
    /\ UNCHANGED <<program, state, pending_call, beyondTrace>>

\* the match on state.instruction_pointer that follows record_state
LookupInstruction ==
    /\ pc = "lookup"
    /\ IF state.instruction_pointer < Len(aet.instruction_multiplicities)
       THEN /\ aet' = [aet EXCEPT
                          !.instruction_multiplicities[state.instruction_pointer + 1] = @ + 1]
            /\ pc' = "step"
            /\ UNCHANGED result
       ELSE /\ result' = Err("InstructionPointerOverflow")
            /\ pc' = "done"
            /\ UNCHANGED aet
    /\ UNCHANGED <<program, state, pending_call, issue_log, beyondTrace>>

\* let maybe_co_processor_call = state.step()?
Step ==
    /\ pc = "step"
    /\ state.cycle_count < MaxCycles
    /\ LET stepped == step(state) IN
          /\ IF ~stepped.res.ok
             THEN /\ state' \in AfterFailedStep(state)
                  /\ result' = stepped.res
                  /\ pc' = "done"
                  /\ UNCHANGED <<pending_call, issue_log>>
             ELSE /\ state' = stepped.state
                  /\ pending_call' = stepped.res.val
                  /\ pc' = IF stepped.res.val.some THEN "record_call" ELSE "loop"
                  /\ issue_log' = IF stepped.res.val.some
                                  THEN Append(issue_log, stepped.res.val.val)
                                  ELSE issue_log
                  /\ UNCHANGED result
    /\ UNCHANGED <<program, aet, beyondTrace>>

\* aet.record_co_processor_call(co_processor_call)
RecordCoProcessorCall ==
    /\ pc = "record_call"
    /\ LET outcome == record_co_processor_call(aet, pending_call.val) IN
          /\ aet' = outcome.aet
          /\ pc' = IF outcome.res.ok THEN "loop" ELSE "done"
          /\ result' = IF outcome.res.ok THEN result ELSE outcome.res
    /\ pending_call' = None
    /\ UNCHANGED <<program, state, issue_log, beyondTrace>>

\* Ok((aet, state.public_output))
ReturnTrace ==
    /\ pc = "loop" /\ state.halting
    /\ result' = Ok([aet |-> aet, public_output |-> state.public_output])
    /\ pc' = "done"
    /\ UNCHANGED <<program, aet, state, pending_call, issue_log, beyondTrace>>

Next == RecordState \/ LookupInstruction \/ Step \/ RecordCoProcessorCall \/ ReturnTrace

Spec == Init /\ [][Next]_vars

----------------------------------------------------------------------------
(* SpecTwice: trace_execution run twice on the same program and inputs. The  *)
(* only thing that differs between two executions is the RandomState of the  *)
(* HashMaps the AET owns (u32_entries, cascade_table_lookup_multiplicities). *)

HashSeeds == {0, 1}

InitTwice ==
    /\ \E src \in TracedSources, public_input \in PublicInputs :
          /\ program = Program_new(src).val
          /\ aet = AlgebraicExecutionTrace_new(program)
          /\ state = VMState_new(program, public_input, <<>>)
          /\ given_input = public_input
    /\ pc = "loop"
    /\ pending_call = None
    /\ result = Err("none")
    /\ issue_log = <<>>
    /\ run_no = 1
    /\ first_result = None
    /\ hash_seed \in HashSeeds
    /\ IdleBeyondTwice

\* the second call of trace_execution, with the arguments of the first
RunAgain ==
    /\ pc = "done" /\ run_no = 1
    /\ first_result' = Some(result)
    /\ run_no' = 2
    /\ hash_seed' \in HashSeeds
    /\ aet' = AlgebraicExecutionTrace_new(program)
    /\ state' = VMState_new(program, given_input, <<>>)
    /\ pc' = "loop"
    /\ pending_call' = None
    /\ result' = Err("none")
    /\ issue_log' = <<>>
    /\ UNCHANGED <<program, given_input, beyondTwice>>

NextTwice ==
    RecordState \/ LookupInstruction \/ Step \/ RecordCoProcessorCall \/ ReturnTrace \/ RunAgain

SpecTwice == InitTwice /\ [][NextTwice]_vars

C11_WitnessBothFail ==
    /\ pc = "done" /\ run_no = 2
    /\ ~result.ok /\ ~first_result.val.ok

----------------------------------------------------------------------------
(* Claims about the trace *)

RECURSIVE SumSeq(_)
SumSeq(xs) == IF xs = <<>> THEN 0 ELSE Head(xs) + SumSeq(Tail(xs))

\* number of processor rows recorded with instruction pointer ip
RowsAt(a, ip) ==
    Cardinality({r \in 1..Len(a.processor_trace) : a.processor_trace[r].ip = ip})

\* C1: after trace_execution returns successfully, the multiplicity of every
\* program word i equals the number of recorded states whose instruction
\* pointer was i, and the multiplicities sum to the number of processor rows.
C1_MultiplicitiesCountExecutions ==
    (pc = "done" /\ result.ok) =>
        LET a == result.val.aet IN
        /\ \A i \in 1..Len(a.instruction_multiplicities) :
              a.instruction_multiplicities[i] = RowsAt(a, i - 1)
        /\ SumSeq(a.instruction_multiplicities) = Len(a.processor_trace)

\* what the returned trace holds instead: every recorded state is counted twice
C1_EveryStateCountedTwice ==
    (pc = "done" /\ result.ok) =>
        LET a == result.val.aet IN
        /\ \A i \in 1..Len(a.instruction_multiplicities) :
              a.instruction_multiplicities[i] = 2 * RowsAt(a, i - 1)
        /\ SumSeq(a.instruction_multiplicities) = 2 * Len(a.processor_trace)

\* C9: record_state called with an instruction pointer at or beyond the
\* length of instruction_multiplicities returns InstructionPointerOverflow
\* and leaves the AET unchanged: no row appended, no multiplicity changed.
C9_RecordStateOverflow ==
    [][ ( /\ pc = "loop" /\ ~state.halting
          /\ state.instruction_pointer >= Len(aet.instruction_multiplicities) )
        => ( /\ aet' = aet
             /\ result' = Err("InstructionPointerOverflow") ) ]_vars

C9_Witness ==
    /\ pc = "done"
    /\ result = Err("InstructionPointerOverflow")
    /\ state.instruction_pointer >= Len(aet.instruction_multiplicities)
    /\ Len(aet.processor_trace) > 0
    /\ pending_call = None

IsPrefix(xs, ys) == Len(xs) <= Len(ys) /\ SubSeq(ys, 1, Len(xs)) = xs

\* a counter map only gains keys and no counter in it decreases
MapGrows(old, new) ==
    /\ DOMAIN old \subseteq DOMAIN new
    /\ \A k \in DOMAIN old : old[k] <= new[k]

\* one step of the AET: rows are appended at the end of a table, counters go up
AetAppendOnly ==
    /\ aet'.program = aet.program
    /\ IsPrefix(aet.processor_trace, aet'.processor_trace)
    /\ IsPrefix(aet.op_stack_underflow_trace, aet'.op_stack_underflow_trace)
    /\ IsPrefix(aet.ram_trace, aet'.ram_trace)
    /\ IsPrefix(aet.program_hash_trace, aet'.program_hash_trace)
    /\ IsPrefix(aet.hash_trace, aet'.hash_trace)
    /\ IsPrefix(aet.sponge_trace, aet'.sponge_trace)
    /\ Len(aet'.instruction_multiplicities) = Len(aet.instruction_multiplicities)
    /\ MapGrows(aet.instruction_multiplicities, aet'.instruction_multiplicities)
    /\ MapGrows(aet.u32_entries, aet'.u32_entries)
    /\ MapGrows(aet.cascade_table_lookup_multiplicities,
                aet'.cascade_table_lookup_multiplicities)
    /\ MapGrows(aet.lookup_table_lookup_multiplicities,
                aet'.lookup_table_lookup_multiplicities)

\* the calls and states the AET has been handed so far, in the order the
\* interpreter produced them (a call still pending is not yet handed over)
Handed == IF pc = "record_call" THEN SubSeq(issue_log, 1, Len(issue_log) - 1) ELSE issue_log

\* the rows one handed item contributes to a table
RowsFor(table, item) ==
    CASE table = "processor" /\ item.kind = "state" ->
            <<[clk |-> item.state.cycle_count,
               ip |-> item.state.instruction_pointer,
               op_stack |-> item.state.op_stack]>>
      [] table = "op_stack" /\ item.kind = "OpStackCall" -> <<item.entry>>
      [] table = "ram" /\ item.kind = "RamCall" -> <<item.entry>>
      [] table = "hash" /\ item.kind = "Tip5Trace" /\ item.instruction = I("Hash") ->
            [r \in 1..Len(item.trace) |->
                [round_no |-> r - 1, st |-> item.trace[r], CI |-> opcode_b(I("Hash"))]]
      [] table = "sponge" /\ item.kind = "Tip5Trace" /\ item.instruction # I("Hash") ->
            [r \in 1..Len(item.trace) |->
                [round_no |-> r - 1, st |-> item.trace[r], CI |-> opcode_b(item.instruction)]]
      [] table = "sponge" /\ item.kind = "SpongeStateReset" ->
            <<[round_no |-> 0, st |-> Tip5_init, CI |-> opcode_b(I("AbsorbInit"))]>>
      [] OTHER -> <<>>

RECURSIVE RowsInOrder(_, _)
RowsInOrder(table, items) ==
    IF items = <<>> THEN <<>>
    ELSE RowsFor(table, Head(items)) \o RowsInOrder(table, Tail(items))

\* every table holds exactly the rows of the handed items, in issue order
RowsInIssueOrder ==
    /\ aet.processor_trace = RowsInOrder("processor", Handed)
    /\ aet.op_stack_underflow_trace = RowsInOrder("op_stack", Handed)
    /\ aet.ram_trace = RowsInOrder("ram", Handed)
    /\ aet.hash_trace = RowsInOrder("hash", Handed)
    /\ aet.sponge_trace = RowsInOrder("sponge", Handed)

\* C10: the AET is append-only and order-preserving: every record_state and
\* record_co_processor_call only appends rows or increases a counter, no row
\* already recorded is modified or removed, no counter decreases, and the
\* rows of each table appear in the order of the calls that produced them.
C10_AppendOnlyInOrder ==
    [][AetAppendOnly]_vars /\ []RowsInIssueOrder

C10_Witness ==
    /\ pc = "done" /\ result.ok
    /\ Len(aet.processor_trace) >= 2
    /\ Len(aet.op_stack_underflow_trace) >= 2
    /\ Len(aet.hash_trace) > 0
    /\ Len(aet.sponge_trace) > 1

----------------------------------------------------------------------------
(* SpecDrivers: program.rs, the driver loops debug and debug_terminal_state, *)
(* next to trace_execution                                                   *)

\* width of a u32 in the model: cycle_count and max_cycles are u32
U32_BITS == 4
U32_MAX == 2^U32_BITS - 1

\* max_cycles that is the ceiling whatever num_cycles_to_execute says
max_cycles_of_without_cap(s, cycles, overflow_checks) == Ok(U32_MAX)

\* let max_cycles = match num_cycles_to_execute { .. }: the u32 addition
\* panics in a build with overflow checks and wraps in one without
max_cycles_of(s, cycles, overflow_checks) ==
    IF ~cycles.some THEN Ok(U32_MAX)
    ELSE LET sum == s.cycle_count + cycles.val IN
         IF sum <= U32_MAX THEN Ok(sum)
         ELSE IF overflow_checks THEN Panic("attempt to add with overflow")
         ELSE Ok(sum % (U32_MAX + 1))

\* debug: return (states, Some(err))
debug_on_error(err, snapshots) == [states |-> snapshots, error |-> Some(err)]

\* debug: states.push(state); (states, None)
debug_on_exit(snapshots, s) == [states |-> Append(snapshots, s), error |-> None]

\* debug_terminal_state that hands back the state the failed step left behind
debug_terminal_state_on_error_current(err, previous_state, s) ==
    [ok |-> FALSE, err |-> err, state |-> s]

\* debug_terminal_state: return Err((err, previous_state))
debug_terminal_state_on_error(err, previous_state, s) ==
    [ok |-> FALSE, err |-> err, state |-> previous_state]

\* debug_terminal_state that turns a stop at the cycle cap into an error
debug_terminal_state_on_exit_strict(s) ==
    IF s.halting THEN Ok(s) ELSE [ok |-> FALSE, err |-> "cycle limit reached", state |-> s]

\* debug_terminal_state: Ok(state)
debug_terminal_state_on_exit(s) == Ok(s)

StartCycles == {3, U32_MAX - 1}
CycleCaps == {None, Some(0), Some(2), Some(U32_MAX)}

InitDrivers ==
    \E chosen \in {"debug", "debug_terminal_state", "trace_execution"},
       src \in TracedSources, public_input \in PublicInputs :
        LET fresh == VMState_new(Program_new(src).val, public_input, <<>>) IN
        /\ driver = chosen
        /\ IF chosen = "trace_execution"
           THEN /\ program = Program_new(src).val
                /\ aet = AlgebraicExecutionTrace_new(program)
                /\ state = fresh
                /\ pc = "loop"
                /\ pending_call = None /\ result = Err("none") /\ issue_log = <<>>
                /\ dbg_pc = "idle" /\ initial_state = None
                /\ num_cycles_to_execute = None /\ dbg_state = <<>>
           ELSE /\ TraceIdle
                /\ dbg_pc = "start"
                /\ initial_state \in
                      {None} \cup {Some([fresh EXCEPT !.cycle_count = c]) : c \in StartCycles}
                /\ num_cycles_to_execute \in CycleCaps
                /\ dbg_state = IF initial_state.some THEN initial_state.val ELSE fresh
        /\ states = <<>> /\ max_cycles = 0
        /\ dbg_result = Err("none") /\ stopped_by = "none"
        /\ IsaIdle /\ CodecIdle /\ TwiceIdle /\ CircuitsIdle /\ ProofIdle /\ TerminalsIdle /\ ProfileIdle

\* the computation of max_cycles
DriverEnter ==
    /\ dbg_pc = "start"
    /\ \E overflow_checks \in BOOLEAN :
          LET cap == max_cycles_of(dbg_state, num_cycles_to_execute, overflow_checks) IN
          IF cap.ok
          THEN /\ max_cycles' = cap.val
               /\ dbg_pc' = "loop"
               /\ UNCHANGED <<dbg_result, stopped_by>>
          ELSE /\ dbg_result' = cap
               /\ stopped_by' = "panic"
               /\ dbg_pc' = "done"
               /\ UNCHANGED max_cycles
    /\ UNCHANGED <<driver, initial_state, num_cycles_to_execute, dbg_state, states,
                   beyondDrivers>>

\* one iteration of while !state.halting && state.cycle_count < max_cycles
DriverStep ==
    /\ dbg_pc = "loop"
    /\ ~dbg_state.halting /\ dbg_state.cycle_count < max_cycles
    /\ LET previous_state == dbg_state
           snapshots == IF driver = "debug" THEN Append(states, dbg_state) ELSE states
           stepped == step(dbg_state)
       IN /\ states' = snapshots
          /\ IF stepped.res.ok
             THEN /\ dbg_state' = stepped.state
                  /\ UNCHANGED <<dbg_pc, dbg_result, stopped_by>>
             ELSE \E left_behind \in AfterFailedStep(dbg_state) :
                  /\ dbg_state' = left_behind
                  /\ dbg_result' = IF driver = "debug"
                                   THEN debug_on_error(stepped.res.err, snapshots)
                                   ELSE debug_terminal_state_on_error(
                                            stepped.res.err, previous_state, left_behind)
                  /\ stopped_by' = "error"
                  /\ dbg_pc' = "done"
    /\ UNCHANGED <<driver, initial_state, num_cycles_to_execute, max_cycles, beyondDrivers>>

\* the loop condition is false: the driver returns what it has
DriverExit ==
    /\ dbg_pc = "loop"
    /\ dbg_state.halting \/ dbg_state.cycle_count >= max_cycles
    /\ dbg_result' = IF driver = "debug"
                     THEN debug_on_exit(states, dbg_state)
                     ELSE debug_terminal_state_on_exit(dbg_state)
    /\ stopped_by' = IF dbg_state.halting THEN "halt" ELSE "cap"
    /\ dbg_pc' = "done"
    /\ UNCHANGED <<driver, initial_state, num_cycles_to_execute, dbg_state, states,
                   max_cycles, beyondDrivers>>

NextDrivers ==
    \/ DriverEnter \/ DriverStep \/ DriverExit
    \/ RecordState \/ LookupInstruction \/ Step \/ RecordCoProcessorCall \/ ReturnTrace

SpecDrivers == InitDrivers /\ [][NextDrivers]_vars

----------------------------------------------------------------------------
(* Claims about the drivers *)

\* the driver left its loop at the cycle cap with the VM not halted
StoppedAtCap ==
    /\ dbg_pc = "done" /\ stopped_by = "cap"
    /\ ~dbg_state.halting

\* whether what the driver returned reports an error
ReportsError ==
    IF driver = "debug" THEN dbg_result.error.some ELSE ~dbg_result.ok

\* C12: execution is bounded by the optional cycle cap and by the cycle
\* ceiling, and a driver loop (debug, debug_terminal_state) that stops because
\* the cycle count reached the cap while the VM has not halted reports an
\* error rather than a successful result.
C12_AsStated == StoppedAtCap => ReportsError

\* C12, as the code has it: the loop never steps the VM at or beyond the cap,
\* and a driver that stops at the cap with the VM not halted returns
\* successfully: debug returns the snapshots ending with the current,
\* non-halted state and no error, debug_terminal_state returns Ok of that
\* state.
C12_CapStopsWithoutError ==
    /\ (dbg_pc \in {"loop", "done"} /\ stopped_by # "panic" /\ stopped_by # "error") =>
          (dbg_state.cycle_count <= max_cycles
             \/ dbg_state.cycle_count = (IF initial_state.some
                                         THEN initial_state.val.cycle_count ELSE 0))
    /\ StoppedAtCap =>
          /\ ~ReportsError
          /\ driver = "debug" =>
                /\ dbg_result.error = None
                /\ dbg_result.states[Len(dbg_result.states)] = dbg_state
          /\ driver = "debug_terminal_state" => dbg_result = Ok(dbg_state)

C12_Witness ==
    /\ StoppedAtCap
    /\ driver = "debug_terminal_state"
    /\ num_cycles_to_execute = Some(2)
    /\ dbg_state.cycle_count = 2

\* the snapshots are consecutive states of the VM: each but the last steps
\* successfully into the next
ConsecutiveStates(snapshots) ==
    \A k \in 1..(Len(snapshots) - 1) :
        /\ step(snapshots[k]).res.ok
        /\ step(snapshots[k]).state = snapshots[k + 1]

\* the first state the driver worked on
FirstState == IF initial_state.some THEN initial_state.val ELSE dbg_result.states[1]

\* C13, for the two debug drivers: the step that fails ends the driver;
\* debug_terminal_state returns the error with the state as it was before
\* that step, debug returns the snapshots taken before each step, the last
\* of them the state before the failing step.
FailingStepReturnsPreviousState ==
    (/\ dbg_pc = "loop" /\ ~dbg_state.halting /\ dbg_state.cycle_count < max_cycles
     /\ ~step(dbg_state).res.ok)
    => /\ dbg_pc' = "done"
       /\ driver = "debug_terminal_state" =>
             dbg_result' = [ok |-> FALSE, err |-> step(dbg_state).res.err, state |-> dbg_state]
       /\ driver = "debug" =>
             /\ dbg_result'.error = Some(step(dbg_state).res.err)
             /\ dbg_result'.states = Append(states, dbg_state)

\* what a failed driver has returned holds consistent states only
FailedDriverExposesNoTornState ==
    (dbg_pc = "done" /\ stopped_by = "error") =>
        /\ driver = "debug_terminal_state" => ~step(dbg_result.state).res.ok
        /\ driver = "debug" =>
              /\ dbg_result.states # <<>>
              /\ ConsecutiveStates(dbg_result.states)
              /\ ~step(dbg_result.states[Len(dbg_result.states)]).res.ok
              /\ initial_state.some => dbg_result.states[1] = initial_state.val

\* a failed trace_execution returns the error alone
FailedTraceReturnsNoAet ==
    (driver = "trace_execution" /\ pc = "done" /\ ~result.ok) =>
        /\ "val" \notin DOMAIN result
        /\ "aet" \notin DOMAIN result

\* C13: the interpreter stops at the first failing step and never exposes a
\* partially updated state or AET: debug_terminal_state returns the error
\* with the state exactly as it was before the failing step, debug returns
\* only the states snapshotted before each step up to and including the one
\* before the failure, trace_execution returns the error and no AET.
C13_StopsAtFirstFailure ==
    /\ [][FailingStepReturnsPreviousState]_vars
    /\ []FailedDriverExposesNoTornState
    /\ []FailedTraceReturnsNoAet

\* a failed step that left a torn state behind, which the driver did not return
C13_Witness ==
    /\ dbg_pc = "done" /\ stopped_by = "error"
    /\ driver = "debug_terminal_state"
    /\ dbg_state # dbg_result.state
    /\ dbg_result.state.cycle_count > 0

----------------------------------------------------------------------------
(* table/constraint_circuit.rs: circuit expressions and the builder          *)
(*                                                                           *)
(* A node (Rc<RefCell<ConstraintCircuit>>) is known by its id; the heap of a *)
(* builder maps every id it has handed out to the node's expression, whose   *)
(* children are ids again. Field elements are kept in a small prime field   *)
(* and its quadratic extension.                                              *)

FieldP == 7

BField == 0..(FieldP - 1)
\* an extension-field element <<c0, c1>> stands for c0 + c1 * i, i * i = -1
XField == BField \X BField

bfe_operation(op, l, r) ==
    CASE op = "Add" -> (l + r) % FieldP
      [] op = "Sub" -> (l - r + FieldP) % FieldP
      [] op = "Mul" -> (l * r) % FieldP

lift(bfe) == <<bfe, 0>>

\* XFieldElement::unlift
unlift(xfe) == IF xfe[2] = 0 THEN Some(xfe[1]) ELSE None

xfe_operation(op, l, r) ==
    CASE op = "Add" -> <<(l[1] + r[1]) % FieldP, (l[2] + r[2]) % FieldP>>
      [] op = "Sub" -> <<(l[1] - r[1] + FieldP) % FieldP, (l[2] - r[2] + FieldP) % FieldP>>
      [] op = "Mul" -> <<(l[1] * r[1] + (FieldP - 1) * l[2] * r[2]) % FieldP,
                         (l[1] * r[2] + l[2] * r[1]) % FieldP>>

\* enum BinOp
BinOps == {"Add", "Sub", "Mul"}

\* SingleRowIndicator
BaseRow(index) == [row |-> "BaseRow", index |-> index]
ExtRow(index) == [row |-> "ExtRow", index |-> index]
is_base_table_column(indicator) == indicator.row = "BaseRow"
base_table_input(index) == BaseRow(index)
ext_table_input(index) == ExtRow(index)

\* enum CircuitExpression; the children of a binary operation are node ids
XConstant(xfe) == [kind |-> "XConstant", value |-> xfe]
BConstant(bfe) == [kind |-> "BConstant", value |-> bfe]
Input(indicator) == [kind |-> "Input", indicator |-> indicator]
Challenge(challenge_id) == [kind |-> "Challenge", challenge |-> challenge_id]
BinaryOperation(op, lhs, rhs) == [kind |-> "BinaryOperation", op |-> op, lhs |-> lhs, rhs |-> rhs]

\* What Hash and PartialEq of a node look at: the expression with every child
\* replaced by what Hash and PartialEq look at in the child; ids and visit
\* counters are not part of it.
RECURSIVE shape(_, _)
shape(b, id) ==
    LET expression == b.heap[id] IN
    IF expression.kind = "BinaryOperation"
    THEN [kind |-> "BinaryOperation", op |-> expression.op,
          lhs |-> shape(b, expression.lhs), rhs |-> shape(b, expression.rhs)]
    ELSE expression

\* the shape of a binary operation that is not yet a node
shape_of_binop(b, op, lhs, rhs) ==
    [kind |-> "BinaryOperation", op |-> op, lhs |-> shape(b, lhs), rhs |-> shape(b, rhs)]

\* ConstraintCircuitBuilder::new. all_nodes is a HashSet keyed by shape: filed
\* is the shape a member had when its hash was last computed (on insertion,
\* or when the table was resized), resize_at the insertions that resize it.
ConstraintCircuitBuilder_new(resize_at) ==
    [id_counter |-> 0, all_nodes |-> {}, heap |-> <<>>, filed |-> <<>>,
     resize_at |-> resize_at]

\* HashSet::get: a member is found where its hash put it, and only if it
\* still equals the key. A member whose children were replaced since its
\* hash was computed is not found under its present shape.
all_nodes_get(b, key) ==
    {id \in b.all_nodes : b.filed[id] = key /\ shape(b, id) = key}

\* the member a successful lookup returns
found(ids) == CHOOSE id \in ids : \A other \in ids : id <= other

\* HashSet::insert of a node that is not found in the set
all_nodes_insert(b, id) ==
    LET members == b.all_nodes \cup {id} IN
    [b EXCEPT !.all_nodes = members,
              !.filed = IF b.id_counter \in b.resize_at
                        THEN [m \in members |-> shape(b, m)]
                        ELSE (id :> shape(b, id)) @@ @]

\* HashSet::remove
all_nodes_remove(b, id) ==
    LET same == all_nodes_get(b, shape(b, id)) IN
    IF same = {} THEN b
    ELSE [b EXCEPT !.all_nodes = @ \ {found(same)},
                   !.filed = [m \in (DOMAIN @) \ {found(same)} |-> @[m]]]

\* what a constructor returns: the node, and the builder it left behind
Built(b, id) == [builder |-> b, node |-> id]

\* the insertion at the end of make_leaf and binop
with_new_node(b, expression) ==
    LET id == b.id_counter
        stored == [b EXCEPT !.heap = (id :> expression) @@ @]
    IN Built([all_nodes_insert(stored, id) EXCEPT !.id_counter = @ + 1], id)

\* make_leaf that stores an extension-field constant as it is given
make_leaf_as_given(b, given) ==
    LET same == all_nodes_get(b, given)
    IN IF same # {} THEN Built(b, found(same))
       ELSE with_new_node(b, given)

\* ConstraintCircuitBuilder::make_leaf
make_leaf(b, given) ==
    LET expression == IF given.kind = "XConstant" /\ unlift(given.value).some
                      THEN BConstant(unlift(given.value).val)
                      ELSE given
        same == all_nodes_get(b, expression)
    IN IF same # {} THEN Built(b, found(same))
       ELSE with_new_node(b, expression)

\* binop that looks the node up as written only
binop_as_written(b, op, lhs, rhs) ==
    LET same == all_nodes_get(b, shape_of_binop(b, op, lhs, rhs))
    IN IF same # {} THEN Built(b, found(same))
       ELSE with_new_node(b, BinaryOperation(op, lhs, rhs))

\* fn binop
binop(b, op, lhs, rhs) ==
    LET same == all_nodes_get(b, shape_of_binop(b, op, lhs, rhs))
        switched == all_nodes_get(b, shape_of_binop(b, op, rhs, lhs))
    IN IF same # {} THEN Built(b, found(same))
       ELSE IF op \in {"Add", "Mul"} /\ switched # {} THEN Built(b, found(switched))
       ELSE with_new_node(b, BinaryOperation(op, lhs, rhs))

\* substitute that rewrites left children only
substitute_lhs_only(b, old_id, new) ==
    [b EXCEPT !.heap =
        [id \in DOMAIN @ |->
            IF id \in b.all_nodes /\ id # old_id /\ @[id].kind = "BinaryOperation"
            THEN [@[id] EXCEPT !.lhs = IF @ = old_id THEN new ELSE @]
            ELSE @[id]]]

\* ConstraintCircuitBuilder::substitute
substitute(b, old_id, new) ==
    [b EXCEPT !.heap =
        [id \in DOMAIN @ |->
            IF id \in b.all_nodes /\ id # old_id /\ @[id].kind = "BinaryOperation"
            THEN [@[id] EXCEPT !.lhs = IF @ = old_id THEN new ELSE @,
                               !.rhs = IF @ = old_id THEN new ELSE @]
            ELSE @[id]]]

\* the nodes reachable from a node, itself included
RECURSIVE nodes_below(_, _)
nodes_below(b, id) ==
    LET expression == b.heap[id] IN
    IF expression.kind = "BinaryOperation"
    THEN {id} \cup nodes_below(b, expression.lhs) \cup nodes_below(b, expression.rhs)
    ELSE {id}

\* ConstraintCircuit::is_zero
is_zero(b, id) ==
    LET expression == b.heap[id] IN
    CASE expression.kind = "BConstant" -> expression.value = 0
      [] expression.kind = "XConstant" -> expression.value = <<0, 0>>
      [] OTHER -> FALSE

\* ConstraintCircuit::is_one
is_one(b, id) ==
    LET expression == b.heap[id] IN
    CASE expression.kind = "BConstant" -> expression.value = 1
      [] expression.kind = "XConstant" -> expression.value = <<1, 0>>
      [] OTHER -> FALSE

\* the same match with the two constants added whatever the operator is
maybe_new_const_of_sum(op, l, r) ==
    CASE l.kind = "BConstant" /\ r.kind = "BConstant" ->
            Some(BConstant(bfe_operation("Add", l.value, r.value)))
      [] l.kind = "BConstant" /\ r.kind = "XConstant" ->
            Some(XConstant(xfe_operation("Add", lift(l.value), r.value)))
      [] l.kind = "XConstant" /\ r.kind = "BConstant" ->
            Some(XConstant(xfe_operation("Add", l.value, lift(r.value))))
      [] l.kind = "XConstant" /\ r.kind = "XConstant" ->
            Some(XConstant(xfe_operation("Add", l.value, r.value)))
      [] OTHER -> None

\* the match on two constant children in find_equivalent_expression
maybe_new_const(op, l, r) ==
    CASE l.kind = "BConstant" /\ r.kind = "BConstant" ->
            Some(BConstant(bfe_operation(op, l.value, r.value)))
      [] l.kind = "BConstant" /\ r.kind = "XConstant" ->
            Some(XConstant(xfe_operation(op, lift(l.value), r.value)))
      [] l.kind = "XConstant" /\ r.kind = "BConstant" ->
            Some(XConstant(xfe_operation(op, l.value, lift(r.value))))
      [] l.kind = "XConstant" /\ r.kind = "XConstant" ->
            Some(XConstant(xfe_operation(op, l.value, r.value)))
      [] OTHER -> None

\* what find_equivalent_expression returns, and the builder it leaves behind
Equivalent(b, equivalent) == [builder |-> b, equivalent |-> equivalent]

\* find_equivalent_expression without the rules for a zero factor
find_equivalent_expression_keeps_zero_factor(b, id) ==
    LET expression == b.heap[id] IN
    IF expression.kind # "BinaryOperation" THEN Equivalent(b, None)
    ELSE LET op == expression.op
             lhs == expression.lhs
             rhs == expression.rhs
             new_const == maybe_new_const(op, b.heap[lhs], b.heap[rhs])
         IN CASE op \in {"Add", "Sub"} /\ is_zero(b, rhs) -> Equivalent(b, Some(lhs))
              [] op = "Add" /\ is_zero(b, lhs) -> Equivalent(b, Some(rhs))
              [] op = "Mul" /\ is_one(b, rhs) -> Equivalent(b, Some(lhs))
              [] op = "Mul" /\ is_one(b, lhs) -> Equivalent(b, Some(rhs))
              [] OTHER ->
                    IF new_const.some
                    THEN LET leaf == make_leaf(b, new_const.val)
                         IN Equivalent(leaf.builder, Some(leaf.node))
                    ELSE Equivalent(b, None)

\* ConstraintCircuitMonad::find_equivalent_expression. The copy of the
\* constant leaf it returns has the id and the expression of the leaf in the
\* node set, and is known by that id.
find_equivalent_expression(b, id) ==
    LET expression == b.heap[id] IN
    IF expression.kind # "BinaryOperation" THEN Equivalent(b, None)
    ELSE LET op == expression.op
             lhs == expression.lhs
             rhs == expression.rhs
             new_const == maybe_new_const(op, b.heap[lhs], b.heap[rhs])
         IN CASE op \in {"Add", "Sub"} /\ is_zero(b, rhs) -> Equivalent(b, Some(lhs))
              [] op = "Add" /\ is_zero(b, lhs) -> Equivalent(b, Some(rhs))
              [] op = "Mul" /\ is_one(b, rhs) -> Equivalent(b, Some(lhs))
              [] op = "Mul" /\ is_one(b, lhs) -> Equivalent(b, Some(rhs))
              [] op = "Mul" /\ is_zero(b, lhs) -> Equivalent(b, Some(lhs))
              [] op = "Mul" /\ is_zero(b, rhs) -> Equivalent(b, Some(rhs))
              [] OTHER ->
                    IF new_const.some
                    THEN LET leaf == make_leaf(b, new_const.val)
                         IN Equivalent(leaf.builder, Some(leaf.node))
                    ELSE Equivalent(b, None)

\* what constant_fold_inner returns, and the builder it leaves behind
Folded(b, change_tracker, equivalent_circuit) ==
    [builder |-> b, change |-> change_tracker, equivalent |-> equivalent_circuit]

\* the element of a set of one element; binding a name to the element of
\* {e} computes e once
Only(S) == CHOOSE x \in S : TRUE

\* the second half of constant_fold_inner: the node itself, after its children
fold_self(b, id, change_in_children) ==
    Only({ IF found_equivalent.equivalent.some
           THEN Only({ Folded(all_nodes_remove(substituted, id), TRUE,
                              found_equivalent.equivalent)
                       : substituted \in {substitute(found_equivalent.builder, id,
                                                     found_equivalent.equivalent.val)} })
           ELSE Folded(found_equivalent.builder, change_in_children, None)
           : found_equivalent \in {find_equivalent_expression(b, id)} })

\* constant_fold_inner that descends into the left child only
RECURSIVE constant_fold_inner_on_the_left(_, _)
constant_fold_inner_on_the_left(b, id) ==
    LET self_expr == b.heap[id] IN
    IF self_expr.kind = "BinaryOperation"
    THEN Only({ fold_self(in_lhs.builder, id, in_lhs.change)
                : in_lhs \in {constant_fold_inner_on_the_left(b, self_expr.lhs)} })
    ELSE fold_self(b, id, FALSE)

\* ConstraintCircuitMonad::constant_fold_inner. The children it descends into
\* are those of the expression as it was on entry.
RECURSIVE constant_fold_inner(_, _)
constant_fold_inner(b, id) ==
    LET self_expr == b.heap[id] IN
    IF self_expr.kind = "BinaryOperation"
    THEN Only({ Only({ fold_self(in_rhs.builder, id, in_lhs.change \/ in_rhs.change)
                       : in_rhs \in {constant_fold_inner(in_lhs.builder, self_expr.rhs)} })
                : in_lhs \in {constant_fold_inner(b, self_expr.lhs)} })
    ELSE fold_self(b, id, FALSE)

\* the roots constant_folding leaves in the slice, and the builder
Multicircuit(b, roots) == [builder |-> b, circuits |-> roots]

\* the loop "while mutated" of constant_folding on one circuit
RECURSIVE fold_while_mutated(_, _)
fold_while_mutated(b, circuit) ==
    Only({ IF inner.change
           THEN fold_while_mutated(inner.builder,
                    IF inner.equivalent.some THEN inner.equivalent.val ELSE circuit)
           ELSE Built(inner.builder, circuit)
           : inner \in {constant_fold_inner(b, circuit)} })

\* ConstraintCircuitMonad::constant_folding
RECURSIVE constant_folding(_, _)
constant_folding(b, roots) ==
    IF roots = <<>> THEN Multicircuit(b, <<>>)
    ELSE Only({ Only({ Multicircuit(rest.builder, <<head.node>> \o rest.circuits)
                       : rest \in {constant_folding(head.builder, Tail(roots))} })
                : head \in {fold_while_mutated(b, Head(roots))} })

----------------------------------------------------------------------------
(* SpecBuilder: one builder, and every operation on it in any order          *)

MaxNodes == 4
MaxRewrites == 1

\* the insertions that may resize the table of the node set
ResizeSchedules == {{}, {3}}

Leaves ==
    {Input(BaseRow(0)), Input(ExtRow(0)), BConstant(0), XConstant(<<0, 0>>)}

NoLowering ==
    /\ target_degree = 0 /\ num_base_cols = 0 /\ num_ext_cols = 0
    /\ base_constraints = <<>> /\ ext_constraints = <<>>

InitBuilder ==
    /\ circuit_pc = "build"
    /\ builder \in {ConstraintCircuitBuilder_new(resize_at) : resize_at \in ResizeSchedules}
    /\ plan = <<>>
    /\ circuits = <<>>
    /\ last_call = [fn |-> "new"]
    /\ rewrites = 0
    /\ NoLowering
    /\ IdleBeyondCircuits

unchangedByBuilder == <<circuit_pc, plan, target_degree, num_base_cols, num_ext_cols,
                        base_constraints, ext_constraints, beyondCircuits>>

\* b_constant, x_constant, input, challenge
MakeLeafCall ==
    /\ circuit_pc = "build"
    /\ builder.id_counter < MaxNodes
    /\ \E expression \in Leaves :
          LET made == make_leaf(builder, expression) IN
          /\ builder' = made.builder
          /\ last_call' = [fn |-> "make_leaf", expression |-> expression,
                           returned |-> made.node]
    /\ UNCHANGED <<circuits, rewrites, unchangedByBuilder>>

\* the operators +, - and * on two nodes of the builder
BinopCall ==
    /\ circuit_pc = "build"
    /\ builder.id_counter < MaxNodes
    /\ \E op \in BinOps, lhs \in builder.all_nodes, rhs \in builder.all_nodes :
          LET made == binop(builder, op, lhs, rhs) IN
          /\ builder' = made.builder
          /\ last_call' = [fn |-> "binop", op |-> op, lhs |-> lhs, rhs |-> rhs,
                           returned |-> made.node]
    /\ UNCHANGED <<circuits, rewrites, unchangedByBuilder>>

\* substitute, with a new node that does not contain the old one
SubstituteCall ==
    /\ circuit_pc = "build"
    /\ rewrites < MaxRewrites
    /\ rewrites' = rewrites + 1
    /\ \E old_id \in builder.all_nodes, new \in builder.all_nodes :
          /\ old_id \notin nodes_below(builder, new)
          /\ builder' = substitute(builder, old_id, new)
          /\ last_call' = [fn |-> "substitute", old_id |-> old_id, new |-> new]
    /\ UNCHANGED <<circuits, unchangedByBuilder>>

\* constant_folding of the multicircuit made of one node
ConstantFoldingCall ==
    /\ circuit_pc = "build"
    /\ rewrites < MaxRewrites
    /\ rewrites' = rewrites + 1
    /\ \E root \in builder.all_nodes :
          LET folded == constant_folding(builder, <<root>>) IN
          /\ builder' = folded.builder
          /\ circuits' = folded.circuits
          /\ last_call' = [fn |-> "constant_folding", circuits |-> <<root>>]
    /\ UNCHANGED unchangedByBuilder

NextBuilder == MakeLeafCall \/ BinopCall \/ SubstituteCall \/ ConstantFoldingCall

SpecBuilder == InitBuilder /\ [][NextBuilder]_vars

\* some member of the node set has this shape
Exists(b, wanted) == \E id \in b.all_nodes : shape(b, id) = wanted

\* the children of a node, none for a leaf
children(b, id) ==
    IF b.heap[id].kind = "BinaryOperation" THEN {b.heap[id].lhs, b.heap[id].rhs} ELSE {}

\* C14: after any sequence of operations of a builder, its node set holds no
\* two nodes with different ids that represent the same expression.
C14_HashConsing ==
    circuit_pc = "build" =>
        \A id \in builder.all_nodes, other \in builder.all_nodes :
            id # other => shape(builder, id) # shape(builder, other)

\* the state the trace to a violation of C14 ends in: a rewriting call has
\* made a member of the node set equal to another member
C14_TwoNodesOneExpression ==
    /\ circuit_pc = "build"
    /\ last_call.fn \in {"substitute", "constant_folding"}
    /\ \E id \in builder.all_nodes, other \in builder.all_nodes :
          id # other /\ shape(builder, id) = shape(builder, other)

\* the call of binop a step has made, if it has made one
BinopReturned(call, before, after) ==
    LET as_written == shape_of_binop(before, call.op, call.lhs, call.rhs)
        switched == shape_of_binop(before, call.op, call.rhs, call.lhs)
        existing == call.returned \in before.all_nodes /\ after = before
    IN /\ Exists(before, as_written) =>
             existing /\ shape(before, call.returned) = as_written
       /\ (call.op \in {"Add", "Mul"} /\ Exists(before, switched)) =>
             existing /\ shape(before, call.returned) \in {as_written, switched}
       /\ (call.op = "Sub" /\ as_written # switched) =>
             shape(after, call.returned) = as_written

\* C15: constructing a+b when b+a exists in the builder returns the existing
\* node and leaves node set and id counter alone, likewise for a*b and b*a;
\* constructing an expression that exists returns the existing node; a-b is
\* never unified with b-a when a and b differ.
C15_CommutativeUnification ==
    [][last_call'.fn = "binop" => BinopReturned(last_call', builder, builder')]_vars

\* C15 on a builder none of whose nodes has been rewritten
C15_UnificationBeforeRewriting ==
    [][(last_call'.fn = "binop" /\ rewrites = 0)
          => BinopReturned(last_call', builder, builder')]_vars

\* the state the trace to a violation of C15 ends in: binop has returned a
\* new node although a member of the node set had the expression asked for
C15_SecondNodeForExpression ==
    /\ circuit_pc = "build"
    /\ last_call.fn = "binop"
    /\ \E other \in builder.all_nodes :
          /\ other # last_call.returned
          /\ shape(builder, other) = shape(builder, last_call.returned)
          /\ last_call.returned = builder.id_counter - 1

\* what substitute(old_id, new) leaves of a builder
Substituted(old_id, new, before, after) ==
    /\ \A id \in after.all_nodes \ {old_id} : old_id \notin children(after, id)
    /\ \A id \in DOMAIN before.heap :
          old_id \notin children(before, id) => after.heap[id] = before.heap[id]
    /\ \A id \in before.all_nodes \ {old_id} :
          old_id \in children(before, id) =>
              /\ after.heap[id].op = before.heap[id].op
              /\ after.heap[id].lhs =
                    IF before.heap[id].lhs = old_id THEN new ELSE before.heap[id].lhs
              /\ after.heap[id].rhs =
                    IF before.heap[id].rhs = old_id THEN new ELSE before.heap[id].rhs
    /\ old_id \in after.all_nodes
    /\ after.heap[old_id] = before.heap[old_id]
    /\ after.all_nodes = before.all_nodes
    /\ after.id_counter = before.id_counter

\* C20: substitute(old_id, new_node) replaces every edge to the node with id
\* old_id by an edge to new_node: afterwards no node of the builder other
\* than the old node has a child with id old_id, nodes without such a child
\* are unchanged, and the old node stays in the node set, its expression
\* unchanged.
C20_SubstituteReplacesEdges ==
    [][last_call'.fn = "substitute"
          => Substituted(last_call'.old_id, last_call'.new, builder, builder')]_vars

\* substitute has replaced a left and a right edge
C20_Witness ==
    /\ circuit_pc = "build"
    /\ last_call.fn = "substitute"
    /\ \E id \in builder.all_nodes \ {last_call.old_id} :
          /\ builder.heap[id].kind = "BinaryOperation"
          /\ builder.heap[id].rhs = last_call.new
          /\ builder.filed[id].rhs = shape(builder, last_call.old_id)
          /\ shape(builder, last_call.old_id) # shape(builder, last_call.new)
    /\ \E id \in builder.all_nodes \ {last_call.old_id} :
          /\ builder.heap[id].kind = "BinaryOperation"
          /\ builder.heap[id].lhs = last_call.new
          /\ builder.filed[id].lhs = shape(builder, last_call.old_id)

----------------------------------------------------------------------------
(* SpecFolding: a circuit a, roots derived from it, and constant_folding     *)

\* a term the caller writes with +, - and * over leaves
Term(op, lhs, rhs) == [kind |-> "Term", op |-> op, lhs |-> lhs, rhs |-> rhs]

\* the caller evaluates a term: every leaf by make_leaf, every operator by binop
RECURSIVE build(_, _)
build(b, term) ==
    IF term.kind = "Term"
    THEN Only({ Only({ binop(rhs.builder, term.op, lhs.node, rhs.node)
                       : rhs \in {build(lhs.builder, term.rhs)} })
                : lhs \in {build(b, term.lhs)} })
    ELSE make_leaf(b, term)

\* the roots a test derives from a circuit a, by name
root_term(name, a) ==
    LET zero == XConstant(<<0, 0>>)
        one == XConstant(<<1, 0>>)
    IN CASE name = "a" -> a
         [] name = "a+0" -> Term("Add", a, zero)
         [] name = "0+a" -> Term("Add", zero, a)
         [] name = "1*a" -> Term("Mul", one, a)
         [] name = "a*1" -> Term("Mul", a, one)
         [] name = "a-0" -> Term("Sub", a, zero)
         [] name = "a*0" -> Term("Mul", a, zero)
         [] name = "0*a" -> Term("Mul", zero, a)
         [] name = "0-a" -> Term("Sub", zero, a)
         [] name = "a+a*0" -> Term("Add", a, Term("Mul", a, zero))

Derived == {"a+0", "0+a", "1*a", "a*1", "a-0", "a*0", "0*a", "0-a", "a+a*0"}

\* the caller evaluates the terms of a multicircuit one after the other
RECURSIVE build_all(_, _)
build_all(b, terms) ==
    IF terms = <<>> THEN Multicircuit(b, <<>>)
    ELSE Only({ Only({ Multicircuit(rest.builder, <<head.node>> \o rest.circuits)
                       : rest \in {build_all(head.builder, Tail(terms))} })
                : head \in {build(b, Head(terms))} })

LeafSample ==
    {Input(BaseRow(0)), Input(ExtRow(1)), Challenge(0),
     BConstant(0), BConstant(1), BConstant(2), XConstant(<<0, 1>>)}

NestedSample ==
    {Input(BaseRow(0)),
     Term("Add", Input(BaseRow(0)), BConstant(0)),
     Term("Mul", BConstant(0), Input(BaseRow(0))),
     Term("Mul", Input(ExtRow(1)), BConstant(1)),
     Term("Sub", BConstant(2), BConstant(2)),
     Term("Mul", XConstant(<<0, 1>>), XConstant(<<0, 1>>))}

\* the circuits a
FoldedSample ==
    LeafSample
    \cup {Term(op, lhs, rhs) : op \in BinOps, lhs \in LeafSample, rhs \in LeafSample}
    \cup {Term(op, lhs, rhs) : op \in BinOps, lhs \in NestedSample, rhs \in NestedSample}

\* the multicircuits: a next to one derived root, in either order, or a next
\* to every derived root
RootLayouts ==
    {<<"a", name>> : name \in Derived} \cup {<<name, "a">> : name \in Derived}
    \cup {<<"a", "a+0", "0+a", "1*a", "a*1", "a-0", "a*0", "0*a", "0-a", "a+a*0">>}

InitFolding ==
    /\ circuit_pc = "plan"
    /\ builder \in {ConstraintCircuitBuilder_new(resize_at) : resize_at \in {{}, {3}}}
    /\ plan \in {[a |-> a, roots |-> roots,
                   terms |-> [i \in DOMAIN roots |-> root_term(roots[i], a)]]
                  : a \in FoldedSample, roots \in RootLayouts}
    /\ circuits = <<>>
    /\ last_call = [fn |-> "new"]
    /\ rewrites = 0
    /\ NoLowering
    /\ IdleBeyondCircuits

unchangedByFolding == <<plan, target_degree, num_base_cols, num_ext_cols,
                        base_constraints, ext_constraints, beyondCircuits>>

\* the caller builds the roots of the multicircuit
BuildRoots ==
    /\ circuit_pc = "plan"
    /\ LET made == build_all(builder, plan.terms)
       IN /\ builder' = made.builder
          /\ circuits' = made.circuits
          /\ last_call' = [fn |-> "build", circuits |-> made.circuits]
    /\ circuit_pc' = "built"
    /\ UNCHANGED <<rewrites, unchangedByFolding>>

\* ConstraintCircuitMonad::constant_folding(&mut circuits)
FoldMulticircuit ==
    /\ circuit_pc = "built"
    /\ LET folded == constant_folding(builder, circuits)
       IN /\ builder' = folded.builder
          /\ circuits' = folded.circuits
          /\ last_call' = [fn |-> "constant_folding", circuits |-> circuits]
    /\ rewrites' = rewrites + 1
    /\ circuit_pc' = "folded"
    /\ UNCHANGED unchangedByFolding

NextFolding == BuildRoots \/ FoldMulticircuit

SpecFolding == InitFolding /\ [][NextFolding]_vars

\* the root of the multicircuit that was built under a name
RootNamed(name) == circuits[CHOOSE i \in DOMAIN plan.roots : plan.roots[i] = name]

\* C16: after constant_folding of a multicircuit, for every circuit a, the
\* roots built as a+0, 0+a, 1*a, a*1 and a-0 equal the root a; a*0 and 0*a
\* equal the constant 0, so a + a*0 equals a; and the root 0-a does not equal
\* the root a unless a is the zero constant.
C16_FoldingIdentities ==
    circuit_pc = "folded" =>
        \A i \in DOMAIN circuits :
            LET root == shape(builder, circuits[i])
                a == shape(builder, RootNamed("a"))
            IN /\ plan.roots[i] \in {"a+0", "0+a", "1*a", "a*1", "a-0", "a+a*0"} => root = a
               /\ plan.roots[i] \in {"a*0", "0*a"} => root = BConstant(0)
               /\ plan.roots[i] = "0-a" => (root = a => is_zero(builder, RootNamed("a")))

\* a circuit with an operator of its own: folding has replaced every derived
\* root but 0-a, a*0 by the constant 0 and 1*a by a, and 0-a is apart from a
C16_Witness ==
    /\ circuit_pc = "folded"
    /\ Len(circuits) > 2
    /\ builder.heap[RootNamed("a")].kind = "BinaryOperation"
    /\ shape(builder, RootNamed("0-a")) # shape(builder, RootNamed("a"))
    /\ shape(builder, RootNamed("1*a")) = shape(builder, RootNamed("a"))
    /\ shape(builder, RootNamed("a*0")) = BConstant(0)
    /\ \A i \in DOMAIN circuits :
          plan.roots[i] \notin {"a", "0-a"} =>
              last_call.circuits[i] \notin {circuits[i], RootNamed("a")}

----------------------------------------------------------------------------
(* Degree lowering                                                           *)

\* the match at the end of ConstraintCircuit::degree
binary_degree(op, degree_lhs, degree_rhs) ==
    IF op \in {"Add", "Sub"}
    THEN (IF degree_lhs >= degree_rhs THEN degree_lhs ELSE degree_rhs)
    ELSE (IF degree_lhs = -1 \/ degree_rhs = -1 THEN -1 ELSE degree_lhs + degree_rhs)

\* ConstraintCircuit::degree
RECURSIVE degree(_, _)
degree(b, id) ==
    LET expression == b.heap[id] IN
    CASE is_zero(b, id) -> -1
      [] expression.kind = "BinaryOperation" ->
            Only({ binary_degree(expression.op, degree_lhs, degree_rhs)
                   : degree_lhs \in {degree(b, expression.lhs)},
                     degree_rhs \in {degree(b, expression.rhs)} })
      [] expression.kind = "Input" -> 1
      [] OTHER -> 0

\* evaluates_to_base_element that does not look at right operands
evaluates_to_base_element_by_lhs(b, id) ==
    LET expression == b.heap[id] IN
    CASE expression.kind = "BConstant" -> TRUE
      [] expression.kind = "XConstant" -> FALSE
      [] expression.kind = "Input" -> is_base_table_column(expression.indicator)
      [] expression.kind = "Challenge" -> FALSE
      [] expression.kind = "BinaryOperation" ->
            \A below \in nodes_below(b, expression.lhs) :
                b.heap[below].kind \notin {"XConstant", "Challenge"}
                /\ (b.heap[below].kind = "Input" =>
                        is_base_table_column(b.heap[below].indicator))

\* ConstraintCircuit::evaluates_to_base_element
RECURSIVE evaluates_to_base_element(_, _)
evaluates_to_base_element(b, id) ==
    LET expression == b.heap[id] IN
    CASE expression.kind = "BConstant" -> TRUE
      [] expression.kind = "XConstant" -> FALSE
      [] expression.kind = "Input" -> is_base_table_column(expression.indicator)
      [] expression.kind = "Challenge" -> FALSE
      [] expression.kind = "BinaryOperation" ->
            evaluates_to_base_element(b, expression.lhs)
            /\ evaluates_to_base_element(b, expression.rhs)

\* the largest member of a non-empty set of integers
Max(S) == CHOOSE x \in S : \A y \in S : y <= x

\* ConstraintCircuitMonad::multicircuit_degree
multicircuit_degree(b, multicircuit) ==
    IF multicircuit = <<>> THEN -1
    ELSE Max({degree(b, multicircuit[i]) : i \in DOMAIN multicircuit})

\* the ids all_nodes_in_multicircuit returns, each once
ids_in_multicircuit(b, roots) == UNION {nodes_below(b, root) : root \in roots}

\* how often all_nodes_in_circuit lists a node of the wanted shape
RECURSIVE occurrences_in_circuit(_, _, _)
occurrences_in_circuit(b, id, wanted) ==
    LET expression == b.heap[id] IN
    (IF shape(b, id) = wanted THEN 1 ELSE 0)
    + (IF expression.kind = "BinaryOperation"
       THEN occurrences_in_circuit(b, expression.lhs, wanted)
            + occurrences_in_circuit(b, expression.rhs, wanted)
       ELSE 0)

\* the same over the circuits all_nodes_in_multicircuit is given
RECURSIVE occurrences_in_multicircuit(_, _, _)
occurrences_in_multicircuit(b, roots, wanted) ==
    IF roots = {} THEN 0
    ELSE LET root == CHOOSE root \in roots : TRUE
         IN occurrences_in_circuit(b, root, wanted)
            + occurrences_in_multicircuit(b, roots \ {root}, wanted)

\* pick_node_to_substitute up to the filters: the nodes of the multicircuit
\* with degree > target_degree, which the HashSet keeps one of per shape
high_degree_nodes(b, multicircuit, target_deg) ==
    UNION { {CHOOSE id \in high : shape(b, id) = kept : kept \in {shape(b, id) : id \in high}}
            : high \in {{id \in ids_in_multicircuit(b, {multicircuit[i] : i \in DOMAIN multicircuit})
                           : degree(b, id) > target_deg}} }

\* the rest of pick_node_to_substitute: of the candidates, those occurring
\* most often below the high-degree nodes and of these the ones of highest
\* degree. Which node stands for a shape, and which of several is taken, is
\* up to the iteration order of the hash maps: any of them may be returned.
retain_max(nodes, value_of) ==
    IF nodes = {} THEN {}
    ELSE UNION {{id \in nodes : value_of[id] = largest}
                : largest \in {Max({value_of[id] : id \in nodes})}}

\* the candidates of highest degree, however often they occur
highest_degree_of_candidates(b, high, low_degree_nodes) ==
    retain_max(low_degree_nodes, [id \in low_degree_nodes |-> degree(b, id)])

most_occurring_of_highest_degree(b, high, low_degree_nodes) ==
    UNION { UNION { retain_max(candidate_nodes, degrees)
                    : candidate_nodes \in {retain_max(low_degree_nodes, occurrences)} }
            : occurrences \in {[id \in low_degree_nodes |->
                                   occurrences_in_multicircuit(b, high, shape(b, id))]},
              degrees \in {[id \in low_degree_nodes |-> degree(b, id)]} }

\* pick_node_to_substitute without the filter degree <= target_degree
pick_node_to_substitute_of_any_degree(b, multicircuit, target_deg) ==
    UNION { most_occurring_of_highest_degree(b, high,
                {id \in ids_in_multicircuit(b, high) : degree(b, id) > 1})
            : high \in {high_degree_nodes(b, multicircuit, target_deg)} }

\* the candidates of pick_node_to_substitute: the nodes below the nodes of
\* high degree whose degree is above 1 and at most the target
low_degree_nodes(b, multicircuit, target_deg) ==
    UNION { {id \in ids_in_multicircuit(b, high) : degree(b, id) <= target_deg /\ degree(b, id) > 1}
            : high \in {high_degree_nodes(b, multicircuit, target_deg)} }

\* ConstraintCircuitMonad::pick_node_to_substitute: the ids it may return,
\* none if the assertion "Could not lower degree" fails
pick_node_to_substitute(b, multicircuit, target_deg) ==
    UNION { most_occurring_of_highest_degree(b, high,
                {id \in ids_in_multicircuit(b, high) : degree(b, id) <= target_deg /\ degree(b, id) > 1})
            : high \in {high_degree_nodes(b, multicircuit, target_deg)} }

\* the same pass with every new variable in the first free column
Lowered_into_first_free_column(b, multicircuit, chosen_node_id, num_cols, constraints) ==
    LET chosen_node_is_base_col == evaluates_to_base_element(b, chosen_node_id)
        new_input_indicator ==
            IF chosen_node_is_base_col
            THEN base_table_input(num_cols.base)
            ELSE ext_table_input(num_cols.ext)
    IN Only({ Only({ [builder |-> new_constraint.builder,
                      circuits |-> [i \in DOMAIN multicircuit |->
                                       IF multicircuit[i] = chosen_node_id
                                       THEN new_variable.node ELSE multicircuit[i]],
                      base |-> IF chosen_node_is_base_col
                               THEN Append(constraints.base, new_constraint.node)
                               ELSE constraints.base,
                      ext |-> IF chosen_node_is_base_col
                              THEN constraints.ext
                              ELSE Append(constraints.ext, new_constraint.node),
                      substitution |-> [chosen_node |-> chosen_node_id,
                                        base |-> chosen_node_is_base_col,
                                        new_variable |-> new_variable.node,
                                        variable_is_new |->
                                            new_variable.node = b.id_counter,
                                        new_constraint |-> new_constraint.node]]
                     : new_constraint \in
                         {binop(substitute(new_variable.builder, chosen_node_id,
                                           new_variable.node),
                                "Sub", new_variable.node, chosen_node_id)} })
              : new_variable \in {make_leaf(b, Input(new_input_indicator))} })

\* the same pass with the sum of new variable and chosen node as constraint
Lowered_with_sum(b, multicircuit, chosen_node_id, num_cols, constraints) ==
    LET chosen_node_is_base_col == evaluates_to_base_element(b, chosen_node_id)
        new_input_indicator ==
            IF chosen_node_is_base_col
            THEN base_table_input(num_cols.base + Len(constraints.base))
            ELSE ext_table_input(num_cols.ext + Len(constraints.ext))
    IN Only({ Only({ [builder |-> new_constraint.builder,
                      circuits |-> [i \in DOMAIN multicircuit |->
                                       IF multicircuit[i] = chosen_node_id
                                       THEN new_variable.node ELSE multicircuit[i]],
                      base |-> IF chosen_node_is_base_col
                               THEN Append(constraints.base, new_constraint.node)
                               ELSE constraints.base,
                      ext |-> IF chosen_node_is_base_col
                              THEN constraints.ext
                              ELSE Append(constraints.ext, new_constraint.node),
                      substitution |-> [chosen_node |-> chosen_node_id,
                                        base |-> chosen_node_is_base_col,
                                        new_variable |-> new_variable.node,
                                        variable_is_new |->
                                            new_variable.node = b.id_counter,
                                        new_constraint |-> new_constraint.node]]
                     : new_constraint \in
                         {binop(substitute(new_variable.builder, chosen_node_id,
                                           new_variable.node),
                                "Add", new_variable.node, chosen_node_id)} })
              : new_variable \in {make_leaf(b, Input(new_input_indicator))} })

\* one pass of the loop of lower_to_degree with the node chosen
Lowered(b, multicircuit, chosen_node_id, num_cols, constraints) ==
    LET chosen_node_is_base_col == evaluates_to_base_element(b, chosen_node_id)
        new_input_indicator ==
            IF chosen_node_is_base_col
            THEN base_table_input(num_cols.base + Len(constraints.base))
            ELSE ext_table_input(num_cols.ext + Len(constraints.ext))
    IN Only({ Only({ [builder |-> new_constraint.builder,
                      circuits |-> [i \in DOMAIN multicircuit |->
                                       IF multicircuit[i] = chosen_node_id
                                       THEN new_variable.node ELSE multicircuit[i]],
                      base |-> IF chosen_node_is_base_col
                               THEN Append(constraints.base, new_constraint.node)
                               ELSE constraints.base,
                      ext |-> IF chosen_node_is_base_col
                              THEN constraints.ext
                              ELSE Append(constraints.ext, new_constraint.node),
                      substitution |-> [chosen_node |-> chosen_node_id,
                                        base |-> chosen_node_is_base_col,
                                        new_variable |-> new_variable.node,
                                        variable_is_new |->
                                            new_variable.node = b.id_counter,
                                        new_constraint |-> new_constraint.node]]
                     : new_constraint \in
                         {binop(substitute(new_variable.builder, chosen_node_id,
                                           new_variable.node),
                                "Sub", new_variable.node, chosen_node_id)} })
              : new_variable \in {make_leaf(b, Input(new_input_indicator))} })

----------------------------------------------------------------------------
(* SpecLowering: a multicircuit is built, perhaps folded, and lowered        *)

MaxSubstitutions == 6

\* the inputs and challenges the sample multicircuits are made of
Factors == {Input(BaseRow(0)), Input(BaseRow(1)), Input(ExtRow(0)), Challenge(0)}

Product(factors) ==
    IF Len(factors) = 3
    THEN Term("Mul", Term("Mul", factors[1], factors[2]), factors[3])
    ELSE Term("Mul", Term("Mul", factors[1], factors[2]),
                     Term("Mul", factors[3], factors[4]))

LoweredSample ==
    LET x == Input(BaseRow(0))
        y == Input(BaseRow(1))
        e == Input(ExtRow(0))
        square == Term("Mul", x, x)
        padded == Term("Add", Term("Mul", x, BConstant(1)), BConstant(0))
    IN {<<Product(factors)>> : factors \in [1..3 -> Factors]}
       \cup {<<Product(factors)>> : factors \in [1..4 -> Factors \ {Input(BaseRow(1))}]}
       \cup {<<>>,
             <<Term("Mul", x, y)>>,
             <<Term("Add", square, BConstant(0))>>,
             <<Term("Mul", Term("Add", square, BConstant(0)), y)>>,
             <<square, Term("Mul", square, x)>>,
             <<Term("Mul", Term("Mul", square, square), x)>>,
             <<Term("Mul", Term("Mul", Term("Mul", square, square), x), Term("Mul", x, e))>>,
             <<Term("Mul", Term("Mul", square, y), e), Term("Mul", square, square)>>,
             <<Term("Add", Term("Mul", square, x), y), Term("Sub", e, Term("Mul", square, e))>>,
             <<Term("Mul", Term("Mul", x, BConstant(0)), Term("Mul", square, square))>>,
             <<Term("Mul", Term("Mul", BConstant(2), square), Term("Mul", square, Challenge(0)))>>,
             <<Term("Mul", square, y), Term("Mul", Term("Mul", padded, x), y)>>,
             <<Term("Mul", Term("Mul", padded, x), Term("Mul", x, x)),
               Term("Mul", Term("Mul", padded, padded), Term("Mul", e, e))>>}

TargetDegrees == {1, 2, 3}

\* one past the highest base and extension column of the samples, or more
ColumnCounts == {[base |-> 2, ext |-> 1], [base |-> 3, ext |-> 2]}

InitLowering ==
    /\ circuit_pc = "plan"
    /\ builder = ConstraintCircuitBuilder_new({})
    /\ plan \in {[terms |-> terms] : terms \in LoweredSample}
    /\ circuits = <<>>
    /\ last_call = [fn |-> "new"]
    /\ rewrites = 0
    /\ target_degree \in TargetDegrees
    /\ \E cols \in ColumnCounts : num_base_cols = cols.base /\ num_ext_cols = cols.ext
    /\ base_constraints = <<>> /\ ext_constraints = <<>>
    /\ IdleBeyondCircuits

unchangedByLowering == <<plan, rewrites, target_degree, num_base_cols, num_ext_cols,
                         beyondCircuits>>

\* the caller still holds the handles it passed to constant_folding (a
\* ConstraintCircuitMonad is Clone and the operators take their operands by
\* value), multiplies one of them with itself and makes the product the
\* multicircuit
MultiplyHeldCircuit ==
    /\ circuit_pc = "folded"
    /\ \E i \in DOMAIN last_call.circuits :
          \E product \in {binop(builder, "Mul", last_call.circuits[i], last_call.circuits[i])} :
             /\ builder' = product.builder
             /\ circuits' = <<product.node>>
             /\ last_call' = [fn |-> "binop", op |-> "Mul", lhs |-> last_call.circuits[i],
                              rhs |-> last_call.circuits[i], node |-> product.node]
    /\ circuit_pc' = "multiplied"
    /\ UNCHANGED <<base_constraints, ext_constraints, unchangedByLowering>>

\* lower_to_degree up to its loop
LowerEnter ==
    /\ circuit_pc \in {"built", "folded", "multiplied"}
    /\ circuit_pc' = IF ~(target_degree > 1) THEN "panic"
                     ELSE IF circuits = <<>> THEN "done"
                     ELSE "lower"
    /\ last_call' = [fn |-> "lower_to_degree", multicircuit |-> circuits,
                     builder_before |-> builder,
                     degree_before |-> multicircuit_degree(builder, circuits),
                     substitutions |-> <<>>, candidates |-> <<>>, occurrences |-> <<>>]
    /\ UNCHANGED <<builder, circuits, base_constraints, ext_constraints, unchangedByLowering>>

\* one pass of the loop of lower_to_degree
LowerIteration ==
    /\ circuit_pc = "lower"
    /\ multicircuit_degree(builder, circuits) > target_degree
    /\ Len(last_call.substitutions) < MaxSubstitutions
    /\ \E pickable \in {pick_node_to_substitute(builder, circuits, target_degree)} :
       IF pickable = {}
       THEN /\ circuit_pc' = "abort"
            /\ UNCHANGED <<builder, circuits, last_call, base_constraints, ext_constraints>>
       ELSE \E chosen_node_id \in pickable :
               IF chosen_node_id \notin builder.all_nodes
               THEN /\ circuit_pc' = "panic"
                    /\ UNCHANGED <<builder, circuits, last_call,
                                   base_constraints, ext_constraints>>
               ELSE \E pass \in {Lowered(builder, circuits, chosen_node_id,
                                        [base |-> num_base_cols, ext |-> num_ext_cols],
                                        [base |-> base_constraints, ext |-> ext_constraints])} :
                       /\ builder' = pass.builder
                       /\ circuits' = pass.circuits
                       /\ base_constraints' = pass.base
                       /\ ext_constraints' = pass.ext
                       /\ \E low \in {low_degree_nodes(builder, circuits, target_degree)} :
                             last_call' =
                                 [last_call EXCEPT
                                     !.substitutions = Append(@, pass.substitution),
                                     !.candidates = Append(@, low),
                                     !.occurrences = Append(@,
                                         [id \in low |-> occurrences_in_multicircuit(
                                             builder,
                                             high_degree_nodes(builder, circuits, target_degree),
                                             shape(builder, id))])]
                       /\ circuit_pc' = "lower"
    /\ UNCHANGED unchangedByLowering

\* the loop condition fails: lower_to_degree returns the two vectors
LowerReturn ==
    /\ circuit_pc = "lower"
    /\ ~(multicircuit_degree(builder, circuits) > target_degree)
    /\ circuit_pc' = "done"
    /\ UNCHANGED <<builder, circuits, last_call, base_constraints, ext_constraints,
                   unchangedByLowering>>

NextLowering ==
    \/ BuildRoots
    \/ FoldMulticircuit
    \/ MultiplyHeldCircuit
    \/ LowerEnter
    \/ LowerIteration
    \/ LowerReturn

SpecLowering == InitLowering /\ [][NextLowering]_vars

\* the loop of lower_to_degree keeps running until its condition fails
SpecLoweringFair ==
    SpecLowering /\ WF_vars(LowerEnter) /\ WF_vars(LowerIteration) /\ WF_vars(LowerReturn)

\* C17: for every multicircuit and every target degree d > 1, after
\* lower_to_degree the number of roots is unchanged, and every root, every
\* returned base constraint and every returned extension constraint has
\* degree <= d.
C17_DegreesAfterLowering ==
    (circuit_pc = "done" /\ target_degree > 1) =>
        /\ Len(circuits) = Len(last_call.multicircuit)
        /\ \A i \in DOMAIN circuits : degree(builder, circuits[i]) <= target_degree
        /\ \A k \in DOMAIN base_constraints :
              degree(builder, base_constraints[k]) <= target_degree
        /\ \A k \in DOMAIN ext_constraints :
              degree(builder, ext_constraints[k]) <= target_degree

\* two roots, one of them above the target degree before, and constraints
\* of both kinds returned
C17_Witness ==
    /\ circuit_pc = "done"
    /\ Len(circuits) = 2
    /\ last_call.degree_before > target_degree
    /\ base_constraints # <<>>
    /\ ext_constraints # <<>>

IsBaseSubstitution(substitution) == substitution.base
IsExtSubstitution(substitution) == ~substitution.base

\* a circuit over base inputs and base constants only
OnlyBaseInputsAndConstants(b, id) ==
    \A below \in nodes_below(b, id) :
        \/ b.heap[below].kind \in {"BConstant", "BinaryOperation"}
        \/ b.heap[below].kind = "Input" /\ b.heap[below].indicator.row = "BaseRow"

\* constraint number k (from 0) of one kind is Sub(Input(column), n) for the
\* k-th node n replaced by a variable of that kind, the variable is new, and
\* n is no longer part of the multicircuit
IsSubstitutionConstraint(constraint, substitution, column) ==
    LET expression == builder.heap[constraint] IN
    /\ constraint = substitution.new_constraint
    /\ expression.kind = "BinaryOperation"
    /\ expression.op = "Sub"
    /\ builder.heap[expression.lhs] = Input(column)
    /\ expression.lhs = substitution.new_variable
    /\ substitution.variable_is_new
    /\ expression.rhs = substitution.chosen_node
    /\ expression.rhs \notin
          ids_in_multicircuit(builder, {circuits[i] : i \in DOMAIN circuits})

\* C18: every constraint lower_to_degree returns is Sub(Input(v), n) with n
\* the sub-circuit that was replaced and v a fresh column: the k-th base
\* constraint uses base column num_base_cols + k, the k-th extension
\* constraint extension column num_ext_cols + k; a constraint is in the base
\* vector iff n consists of base inputs and base constants only, and in the
\* extension vector otherwise.
C18_SubstitutionConstraints ==
    circuit_pc = "done" =>
        LET base == SelectSeq(last_call.substitutions, IsBaseSubstitution)
            ext == SelectSeq(last_call.substitutions, IsExtSubstitution)
        IN /\ Len(base_constraints) = Len(base)
           /\ Len(ext_constraints) = Len(ext)
           /\ \A k \in DOMAIN base_constraints :
                 /\ IsSubstitutionConstraint(base_constraints[k], base[k],
                                             BaseRow(num_base_cols + k - 1))
                 /\ OnlyBaseInputsAndConstants(builder, base[k].chosen_node)
           /\ \A k \in DOMAIN ext_constraints :
                 /\ IsSubstitutionConstraint(ext_constraints[k], ext[k],
                                             ExtRow(num_ext_cols + k - 1))
                 /\ ~OnlyBaseInputsAndConstants(builder, ext[k].chosen_node)

\* two base constraints and an extension constraint returned, one of the
\* replaced sub-circuits with a base left operand and an extension right one
C18_Witness ==
    /\ circuit_pc = "done"
    /\ Len(base_constraints) >= 2
    /\ ext_constraints # <<>>
    /\ \E k \in DOMAIN ext_constraints :
          LET replaced == builder.heap[builder.heap[ext_constraints[k]].rhs] IN
          /\ OnlyBaseInputsAndConstants(builder, replaced.lhs)
          /\ ~OnlyBaseInputsAndConstants(builder, replaced.rhs)

\* C19: for every multicircuit and every target degree d > 1 the loop of
\* lower_to_degree reaches, after finitely many substitutions, a state in
\* which no root has degree > d, and the assertion "Could not lower degree"
\* never fails.
C19_LoweringTerminates ==
    /\ [](circuit_pc \notin {"abort"})
    /\ [](circuit_pc = "panic" => ~(target_degree > 1))
    /\ (circuit_pc = "lower") ~>
          (circuit_pc = "done" /\ multicircuit_degree(builder, circuits) <= target_degree)

\* the loop has ended after three substitutions
C19_Witness ==
    /\ circuit_pc = "done"
    /\ Len(last_call.substitutions) >= 3
    /\ last_call.degree_before > target_degree
    /\ multicircuit_degree(builder, circuits) <= target_degree

----------------------------------------------------------------------------
(* aet.rs: the heights of the tables and the padded height                  *)

\* the number of bits of n: 0 for 0, and k for 2^(k-1) <= n < 2^k
RECURSIVE bit_length(_)
bit_length(n) == IF n = 0 THEN 0 ELSE 1 + bit_length(n \div 2)

\* U32TableEntry::table_length_contribution (u32_table of the crate): the
\* rows one entry adds to the U32 table, max(1, ceil(log2(max(lhs, rhs) + 1)))
table_length_contribution(entry) ==
    LET dominant == IF entry.left_operand.lo > entry.right_operand.lo
                    THEN entry.left_operand.lo ELSE entry.right_operand.lo
    IN IF bit_length(dominant) < 1 THEN 1 ELSE bit_length(dominant)

program_table_length(a) == padded_program_length(a.program)
processor_table_length(a) == Len(a.processor_trace)
op_stack_table_length(a) == Len(a.op_stack_underflow_trace)
ram_table_length(a) == Len(a.ram_trace)

\* hash_table_length that leaves the program-hash rows out
hash_table_length_of_instructions(a) == Len(a.sponge_trace) + Len(a.hash_trace)

hash_table_length(a) ==
    Len(a.sponge_trace) + Len(a.hash_trace) + Len(a.program_hash_trace)

cascade_table_length(a) == Cardinality(DOMAIN a.cascade_table_lookup_multiplicities)
\* a lookup table with one row per 5-bit value
lookup_table_length_of_5_bits(a) == 32

lookup_table_length(a) == 256

\* the sum of the contributions of the keys of u32_entries
RECURSIVE sum_of_contributions(_)
sum_of_contributions(entries) ==
    IF entries = {} THEN 0
    ELSE LET entry == CHOOSE e \in entries : TRUE
         IN table_length_contribution(entry) + sum_of_contributions(entries \ {entry})

u32_table_length(a) == sum_of_contributions(DOMAIN a.u32_entries)

\* usize::next_power_of_two: the smallest power of two >= n (1 for n = 0)
RECURSIVE power_of_two_from(_, _)
power_of_two_from(power, n) == IF power >= n THEN power ELSE power_of_two_from(2 * power, n)

next_power_of_two(n) == power_of_two_from(1, n)

padded_height(a) ==
    LET relevant_table_heights ==
            << program_table_length(a), processor_table_length(a),
               op_stack_table_length(a), ram_table_length(a),
               hash_table_length(a), cascade_table_length(a),
               lookup_table_length(a), u32_table_length(a) >>
        max_height == Max({relevant_table_heights[k] : k \in DOMAIN relevant_table_heights})
    IN next_power_of_two(max_height)

----------------------------------------------------------------------------
(* SpecAet: an AlgebraicExecutionTrace is made for a program, the caller       *)
(* records states and co-processor calls, then asks for the padded height    *)

\* the program of n nop followed by halt
nops_then_halt(n) == [k \in 1..(n + 1) |-> IF k <= n THEN I("Nop") ELSE I("Halt")]

\* program lengths around the multiples of RATE
AetProgramLengths == {1, 9, 19}

\* a program of ten words, two of them one instruction with its argument
push_nops_then_halt ==
    Program_new(<<LPush(3)>> \o [k \in 1..8 |-> IF k <= 7 THEN LI("Nop") ELSE LI("Halt")]).val


AetPrograms == {nops_then_halt(n - 1) : n \in AetProgramLengths} \cup {push_nops_then_halt}

\* how many calls of one kind the caller makes in a row
CallCounts == {1, 257}

\* how many permutation traces of one kind the caller records in a row
TraceCounts == {18, 21}

\* the state of a VM that is at the first instruction in cycle k
state_in_cycle(instructions, k) ==
    [VMState_new(instructions, <<>>, <<>>) EXCEPT !.cycle_count = k]

InitAet ==
    /\ pc = "new"
    /\ program \in AetPrograms
    /\ aet = <<>>
    /\ state = <<>>
    /\ pending_call = None
    /\ result = Err("none")
    /\ issue_log = <<>>
    /\ IdleBeyondTrace

\* the first DIGEST_LENGTH elements of the state the program sponge ended in:
\* the last row of the last permutation trace of the program-hash matrix
DIGEST_LENGTH == 5

program_digest_of_trace(a) ==
    SubSeq(a.program_hash_trace[Len(a.program_hash_trace)].st, 1, DIGEST_LENGTH)

\* SpongeHasher::hash_varlen (of the hash collaborator): the input is padded
\* with one 1 and zeros up to a multiple of RATE and absorbed chunk by chunk
\* from the initial state; the digest is the front of the final state
RECURSIVE absorb_repeatedly(_, _)
absorb_repeatedly(sponge, padded) ==
    IF padded = <<>> THEN sponge
    ELSE Only({ absorb_repeatedly(absorbed[Len(absorbed)], rest)
                  : absorbed \in {Tip5_trace(Absorbing(sponge, SubSeq(padded, 1, RATE)))},
                    rest \in {SubSeq(padded, RATE + 1, Len(padded))} })

pad_for_varlen(words) ==
    [k \in 1..(((Len(words) \div RATE) + 1) * RATE) |->
        IF k <= Len(words) THEN words[k]
        ELSE IF k = Len(words) + 1 THEN BFIELD_ONE ELSE BFIELD_ZERO]

hash_varlen(input) ==
    Only({ SubSeq(absorb_repeatedly(Tip5_init, padded), 1, DIGEST_LENGTH)
             : padded \in { pad_for_varlen(words) : words \in {input} } })

\* Program::hash
Program_hash(instructions) == hash_varlen(to_bwords(instructions))

\* AlgebraicExecutionTrace::new, with the consistency check that ends
\* fill_program_hash_trace
AetNew ==
    /\ pc = "new"
    /\ \E made \in {AlgebraicExecutionTrace_new(program)} :
          IF Program_hash(program) = program_digest_of_trace(made)
          THEN /\ aet' = made
               /\ pc' = "recording"
               /\ UNCHANGED result
          ELSE /\ result' = Panic("assertion failed: expected_digest == program_digest")
               /\ pc' = "done"
               /\ UNCHANGED aet
    /\ UNCHANGED <<program, state, pending_call, issue_log, beyondTrace>>

\* record_state called n times in a row, for the first instruction
RecordStates ==
    /\ pc = "recording" /\ aet.processor_trace = <<>>
    /\ \E n \in CallCounts :
          aet' = [aet EXCEPT
                     !.instruction_multiplicities[1] = @ + n,
                     !.processor_trace =
                         @ \o [k \in 1..n |-> to_processor_row(state_in_cycle(program, k - 1))]]
    /\ UNCHANGED <<pc, program, state, pending_call, result, issue_log, beyondTrace>>

\* record_co_processor_call(OpStackCall(..)) called n times in a row
RecordOpStackCalls ==
    /\ pc = "recording" /\ aet.op_stack_underflow_trace = <<>>
    /\ \E n \in CallCounts :
          aet' = [aet EXCEPT !.op_stack_underflow_trace =
                     @ \o [k \in 1..n |->
                              OpStackCall(state_in_cycle(program, k), "write",
                                          BFieldElement_new(k)).entry]]
    /\ UNCHANGED <<pc, program, state, pending_call, result, issue_log, beyondTrace>>

\* record_co_processor_call(RamCall(..)) called n times in a row
RecordRamCalls ==
    /\ pc = "recording" /\ aet.ram_trace = <<>>
    /\ \E n \in CallCounts :
          aet' = [aet EXCEPT !.ram_trace =
                     @ \o [k \in 1..n |->
                              RamCall(state_in_cycle(program, k), BFieldElement_new(k),
                                      BFIELD_ONE, TRUE).entry]]
    /\ UNCHANGED <<pc, program, state, pending_call, result, issue_log, beyondTrace>>

\* a sequence repeated n times
repeated(n, seq) == [j \in 1..(n * Len(seq)) |-> seq[((j - 1) % Len(seq)) + 1]]

\* record_co_processor_call(Tip5Trace(Hash, ..)) called n times in a row: the
\* program hashes the same value again and again
RecordHashTraces ==
    /\ pc = "recording" /\ aet.hash_trace = <<>>
    /\ \E n \in TraceCounts :
          \E trace \in {Tip5_trace(HashInput(BFIELD_ONE))} :
             \E rows \in {fill_CI(trace_to_table_rows(trace), opcode_b(I("Hash")))} :
                \E limbs \in {limbs_of_trace(trace)} :
                   aet' = [increase_for_limbs(aet, repeated(n, limbs)) EXCEPT
                              !.hash_trace = @ \o repeated(n, rows)]
    /\ UNCHANGED <<pc, program, state, pending_call, result, issue_log, beyondTrace>>

\* record_co_processor_call(SpongeStateReset) and then
\* record_co_processor_call(Tip5Trace(Absorb, ..)), n times in a row: the
\* program resets the sponge and absorbs the same chunk again and again
RecordSpongeTraces ==
    /\ pc = "recording" /\ aet.sponge_trace = <<>>
    /\ \E n \in TraceCounts :
          \E trace \in {Tip5_trace(Absorbing(Tip5_init, <<BFieldElement_new(2)>>))} :
             \E rows \in {append_initial_sponge_state(aet).sponge_trace
                             \o fill_CI(trace_to_table_rows(trace), opcode_b(I("Absorb")))} :
                \E limbs \in {limbs_of_trace(trace)} :
                   aet' = [increase_for_limbs(aet, repeated(n, limbs)) EXCEPT
                              !.sponge_trace = @ \o repeated(n, rows)]
    /\ UNCHANGED <<pc, program, state, pending_call, result, issue_log, beyondTrace>>

\* record_co_processor_call(U32Call(..)) for every left operand up to n, the
\* first of them twice
RecordU32Calls ==
    /\ pc = "recording" /\ aet.u32_entries = <<>>
    /\ \E n \in {63} :
          aet' = [aet EXCEPT !.u32_entries =
                     [entry \in {U32Call(I("Lt"), BFieldElement_new(lhs), BFIELD_ZERO).entry
                                    : lhs \in 1..n}
                         |-> IF entry.left_operand = BFIELD_ONE THEN 2 ELSE 1]]
    /\ UNCHANGED <<pc, program, state, pending_call, result, issue_log, beyondTrace>>

\* aet.padded_height()
PaddedHeight ==
    /\ pc = "recording"
    /\ result' = Ok(padded_height(aet))
    /\ pc' = "done"
    /\ UNCHANGED <<program, aet, state, pending_call, issue_log, beyondTrace>>

NextAet ==
    \/ AetNew
    \/ RecordStates
    \/ RecordOpStackCalls
    \/ RecordRamCalls
    \/ RecordHashTraces
    \/ RecordSpongeTraces
    \/ RecordU32Calls
    \/ PaddedHeight

SpecAet == InitAet /\ [][NextAet]_vars

\* the heights of the eight tables, read off the fields of the AET
table_heights_of(a) ==
    { ((len_bwords(a.program) + 1 + RATE - 1) \div RATE) * RATE,
      Len(a.processor_trace),
      Len(a.op_stack_underflow_trace),
      Len(a.ram_trace),
      Len(a.sponge_trace) + Len(a.hash_trace) + Len(a.program_hash_trace),
      Cardinality(DOMAIN a.cascade_table_lookup_multiplicities),
      256,
      u32_table_length(a) }

is_power_of_two(n) == \E k \in 0..20 : n = 2 ^ k

\* C21: the padded height is the smallest power of two that is at least the
\* largest of the heights of the program, processor, op-stack, RAM, hash,
\* cascade, lookup and u32 tables.
C21_PaddedHeight ==
    (pc = "done" /\ result.ok) =>
        /\ is_power_of_two(result.val)
        /\ \A height \in table_heights_of(aet) : result.val >= height
        /\ \E height \in table_heights_of(aet) : 2 * height > result.val

\* the hash table, program-hash rows included, is the one table higher than
\* 256, and the padded height is 512
C21_Witness ==
    /\ pc = "done" /\ result = Ok(512)
    /\ Len(aet.sponge_trace) + Len(aet.hash_trace) + Len(aet.program_hash_trace) > 256
    /\ Len(aet.sponge_trace) + Len(aet.hash_trace) <= 256
    /\ \A height \in table_heights_of(aet) \ {hash_table_length(aet)} : height <= 256

----------------------------------------------------------------------------
(* trace_execution of the program halt *)

\* trace_execution has returned for the program halt, started with empty
\* public input and empty secret input
TracedHaltOnEmptyInput ==
    /\ pc = "done"
    /\ program = Program_new(<<LI("Halt")>>).val
    /\ state.public_input = <<>> /\ state.secret_input = <<>>

\* C22 as stated: tracing halt on empty input succeeds with output [], one
\* processor row and padded height 32.
C22_AsStated ==
    TracedHaltOnEmptyInput =>
        /\ result.ok
        /\ result.val.public_output = <<>>
        /\ Len(result.val.aet.processor_trace) = 1
        /\ padded_height(result.val.aet) = 32

\* C22, amended: tracing halt on empty input succeeds with output [], one
\* processor row and padded height 256, the height of the lookup table.
C22_TraceOfHalt ==
    TracedHaltOnEmptyInput =>
        /\ result.ok
        /\ result.val.public_output = <<>>
        /\ Len(result.val.aet.processor_trace) = 1
        /\ padded_height(result.val.aet) = 256

C22_Witness ==
    /\ TracedHaltOnEmptyInput
    /\ result.ok
    /\ state.cycle_count = 1
    /\ padded_height(result.val.aet) = lookup_table_length(result.val.aet)

----------------------------------------------------------------------------
(* the hash input of the program *)

\* what the program sponge absorbed, read back from the program-hash matrix:
\* the first RATE elements of the state in the first row of every trace
absorbed_by_program_sponge(a) ==
    LET rows == a.program_hash_trace
        per_trace == NUM_ROUNDS + 1
    IN [k \in 1..(RATE * (Len(rows) \div per_trace)) |->
           rows[per_trace * ((k - 1) \div RATE) + 1].st[((k - 1) % RATE) + 1]]

\* C23: the hash input of a program of L words is the words, a single 1 and
\* then zeros; its length, the height of the program table, is the least
\* multiple of RATE that is at least L + 1, and no zero is added when L + 1
\* is such a multiple.
C23_HashInputPadding ==
    pc \in {"recording", "done"} =>
        /\ aet # <<>>
        /\ LET input == absorbed_by_program_sponge(aet)
                   words == to_bwords(program)
                   L == Len(words)
               IN /\ input = hash_input_pad_program(program)
                  /\ Len(input) = program_table_length(aet)
                  /\ SubSeq(input, 1, L) = words
                  /\ input[L + 1] = BFIELD_ONE
                  /\ \A k \in (L + 2)..Len(input) : input[k] = BFIELD_ZERO
                  /\ Len(input) % RATE = 0
                  /\ Len(input) >= L + 1
                  /\ Len(input) - RATE < L + 1
                  /\ ((L + 1) % RATE = 0 => Len(input) = L + 1)

\* a program of RATE - 1 words: one chunk is absorbed, its last element the 1
C23_Witness ==
    /\ pc = "recording"
    /\ len_bwords(program) + 1 = RATE
    /\ Len(aet.program_hash_trace) = NUM_ROUNDS + 1
    /\ absorbed_by_program_sponge(aet)[RATE] = BFIELD_ONE

----------------------------------------------------------------------------
(* program attestation *)

\* the rows of the program-hash matrix are the permutation traces of one
\* sponge that absorbs the chunks of the input one after the other
is_sponge_trace_of(rows, input) ==
    LET per_trace == NUM_ROUNDS + 1 IN
    /\ Len(rows) = per_trace * (Len(input) \div RATE)
    /\ \A c \in 1..(Len(input) \div RATE) :
          \E first \in {per_trace * (c - 1) + 1} :
             /\ \E before \in {IF c = 1 THEN Tip5_init ELSE rows[first - 1].st} :
                   rows[first].st =
                       Absorbing(before, SubSeq(input, RATE * (c - 1) + 1, RATE * c))
             /\ \A r \in 1..NUM_ROUNDS :
                   /\ rows[first + r].st = Tip5_round(rows[first + r - 1].st, r - 1)
                   /\ rows[first + r].round_no = r

\* C28: after the AET is made, the program-hash matrix holds the permutation
\* traces of the sponge absorbing the padded program chunk by chunk, and the
\* first DIGEST_LENGTH elements of the state it ends in are the varlen hash of
\* the program's words.
C28_ProgramAttestation ==
    pc \in {"recording", "done"} =>
        /\ aet # <<>>
        /\ \E rows \in {aet.program_hash_trace}, input \in {hash_input_pad_program(program)} :
              is_sponge_trace_of(rows, input)
        /\ program_digest_of_trace(aet) = hash_varlen(to_bwords(program))

\* a program of two chunks has been attested
C28_Witness ==
    /\ pc = "recording"
    /\ Len(aet.program_hash_trace) = 2 * (NUM_ROUNDS + 1)
    /\ SubSeq(aet.program_hash_trace[2 * (NUM_ROUNDS + 1)].st, 1, DIGEST_LENGTH)
           = Program_hash(program)

----------------------------------------------------------------------------
(* the lookup multiplicities *)

HashMatrices == {"program_hash_trace", "hash_trace", "sponge_trace"}

\* the rows of the three hash matrices that stem from a trace row other than
\* the last: the row of the initial sponge state stems from no trace
rows_looked_up(a) ==
    UNION { { <<matrix, r>> : r \in { q \in DOMAIN a[matrix] :
                                         /\ a[matrix][q].round_no < NUM_ROUNDS
                                         /\ a[matrix][q].CI # opcode_b(I("AbsorbInit")) } }
              : matrix \in HashMatrices }

\* the limb at every position that is looked up: row, state element, limb
limbs_looked_up(a) ==
    [ at \in { <<row, k, j>> : row \in rows_looked_up(a),
                               k \in 1..NUM_SPLIT_AND_LOOKUP, j \in 1..4 }
        |-> base_field_element_into_16_bit_limbs(a[at[1][1]][at[1][2]].st[at[2]])[at[3]] ]

\* the sum of the values of a function to the naturals
total_of(multiplicities) ==
    Cardinality(UNION { { <<key, i>> : i \in 1..multiplicities[key] }
                          : key \in DOMAIN multiplicities })

\* C24: whatever permutation traces have been recorded, the cascade
\* multiplicity of a limb is the number of times it occurs among the limbs of
\* the looked-up state elements of the rows other than the last of a trace;
\* the lookup table is incremented at the low and at the high byte once for
\* every distinct limb; hence the 256 lookup multiplicities sum to twice the
\* number of cascade entries and the cascade multiplicities to the number of
\* limbs processed.
C24_LookupMultiplicities ==
    aet # <<>> =>
        \E limb_at \in {limbs_looked_up(aet)} :
           \E cascade \in {aet.cascade_table_lookup_multiplicities} :
              /\ DOMAIN cascade = { limb_at[at] : at \in DOMAIN limb_at }
              /\ \A limb \in DOMAIN cascade :
                    cascade[limb] = Cardinality({ at \in DOMAIN limb_at : limb_at[at] = limb })
              /\ \A byte \in 0..255 :
                    aet.lookup_table_lookup_multiplicities[byte]
                        = Cardinality({ limb \in DOMAIN cascade : limb % 256 = byte })
                            + Cardinality({ limb \in DOMAIN cascade : limb \div 256 = byte })
              /\ total_of(aet.lookup_table_lookup_multiplicities)
                     = 2 * Cardinality(DOMAIN cascade)
              /\ total_of(cascade) = Cardinality(DOMAIN limb_at)

\* a run has recorded the program's traces, a hash trace, the initial sponge
\* state and sponge traces, and some limb was looked up more than once
C24_Witness ==
    /\ pc = "done" /\ result.ok
    /\ aet.hash_trace # <<>>
    /\ Len(aet.sponge_trace) > NUM_ROUNDS + 1
    /\ \E limb \in DOMAIN aet.cascade_table_lookup_multiplicities :
          aet.cascade_table_lookup_multiplicities[limb] > 1

----------------------------------------------------------------------------
(* proof.rs: Proof::padded_height. The proof stream and its items belong to  *)
(* the proof_stream and proof_item modules; a proof is the encoding of the   *)
(* items of a stream, every item behind its length, the whole behind the     *)
(* number of items.                                                           *)

Log2PaddedHeight(k) == [item |-> "Log2PaddedHeight", payload |-> <<BFieldElement_new(k)>>]
MerkleRoot(digest) == [item |-> "MerkleRoot", payload |-> digest]

discriminant(item) == IF item.item = "MerkleRoot" THEN 0 ELSE 1

\* the most items a stream holds
MaxItems == 3

\* the width of usize on the targets of the crate
USIZE_BITS == 64

\* the exponents a prover, honest or not, may put in the item
Log2Heights == {0, 7, 8, USIZE_BITS - 1, USIZE_BITS, USIZE_BITS + 1}

ProofItems ==
    {Log2PaddedHeight(k) : k \in Log2Heights}
        \cup {MerkleRoot([k \in 1..DIGEST_LENGTH |-> BFIELD_ZERO])}

encode_item(item) ==
    <<BFieldElement_new(1 + Len(item.payload)), BFieldElement_new(discriminant(item))>>
        \o item.payload

RECURSIVE encode_items(_)
encode_items(items) ==
    IF items = <<>> THEN <<>> ELSE encode_item(Head(items)) \o encode_items(Tail(items))

\* Proof::from(proof_stream)
Proof_from(items) == <<BFieldElement_new(Len(items))>> \o encode_items(items)

decode_item(words) ==
    IF words[1].lo = 0 /\ Len(words) = 1 + DIGEST_LENGTH
    THEN Ok(MerkleRoot(Tail(words)))
    ELSE IF words[1].lo = 1 /\ Len(words) = 2
    THEN Ok([item |-> "Log2PaddedHeight", payload |-> Tail(words)])
    ELSE Err("ProofStreamError::DecodingError")

RECURSIVE decode_items(_, _)
decode_items(words, count) ==
    IF count = 0
    THEN IF words = <<>> THEN Ok(<<>>) ELSE Err("ProofStreamError::DecodingError")
    ELSE IF words = <<>> \/ words[1].lo < 1 \/ words[1].lo > Len(words) - 1
    THEN Err("ProofStreamError::DecodingError")
    ELSE LET item == decode_item(SubSeq(words, 2, 1 + words[1].lo))
             rest == decode_items(SubSeq(words, 2 + words[1].lo, Len(words)), count - 1)
         IN IF ~item.ok THEN item
            ELSE IF ~rest.ok THEN rest
            ELSE Ok(<<item.val>> \o rest.val)

\* ProofStream::try_from(&proof): the items, or the decoding error
ProofStream_try_from(p) ==
    IF p = <<>> THEN Err("ProofStreamError::DecodingError")
    ELSE decode_items(Tail(p), p[1].lo)

\* item.as_log2_padded_height().ok() over the items
log_2_padded_heights_of(items) ==
    LET chosen == SelectSeq(items, LAMBDA item : item.item = "Log2PaddedHeight")
    IN [k \in DOMAIN chosen |-> chosen[k].payload[1].lo]

\* the power of two with the given exponent
PowerOfTwo(exponent) == [two_to_the |-> exponent]

\* 1 << k in usize: an exponent of USIZE_BITS or more panics in a build with
\* overflow checks, and is taken modulo USIZE_BITS in a build without
shift_one_left(k) ==
    IF k < USIZE_BITS THEN {Ok(PowerOfTwo(k))}
    ELSE {Panic("attempt to shift left with overflow"), Ok(PowerOfTwo(k % USIZE_BITS))}

\* 1 << k in unbounded integers
shift_one_left_unbounded(k) == {Ok(PowerOfTwo(k))}

\* Proof::padded_height: the outcomes a build can produce
Proof_padded_height(p) ==
    LET proof_stream == ProofStream_try_from(p) IN
    IF ~proof_stream.ok THEN {proof_stream}
    ELSE LET log_2_padded_heights == log_2_padded_heights_of(proof_stream.val) IN
         IF log_2_padded_heights = <<>> THEN {Err("ProofStreamError::NoLog2PaddedHeight")}
         ELSE IF Len(log_2_padded_heights) > 1
         THEN {Err("ProofStreamError::TooManyLog2PaddedHeights")}
         ELSE shift_one_left(log_2_padded_heights[1])

InitProof ==
    /\ proof_pc = "building"
    /\ proof = Proof_from(<<>>)
    /\ proof_height = Err("none")
    /\ IdleBeyondProof

\* proof_stream.enqueue(item), and the proof the stream converts into
EnqueueItem ==
    /\ proof_pc = "building"
    /\ proof[1].lo < MaxItems
    /\ \E item \in ProofItems :
          proof' = Proof_from(Append(ProofStream_try_from(proof).val, item))
    /\ UNCHANGED <<proof_pc, proof_height, beyondProof>>

\* the proof data arrives without its last element
TruncateProof ==
    /\ proof_pc = "building"
    /\ proof' = SubSeq(proof, 1, Len(proof) - 1)
    /\ proof_pc' = "received"
    /\ UNCHANGED <<proof_height, beyondProof>>

\* proof.padded_height()
ProofPaddedHeight ==
    /\ proof_pc \in {"building", "received"}
    /\ proof_height' \in Proof_padded_height(proof)
    /\ proof_pc' = "done"
    /\ UNCHANGED <<proof, beyondProof>>

NextProof == EnqueueItem \/ TruncateProof \/ ProofPaddedHeight

SpecProof == InitProof /\ [][NextProof]_vars

\* the exponents of the Log2PaddedHeight items of a proof that decodes
exponents_in_proof == log_2_padded_heights_of(ProofStream_try_from(proof).val)

\* C25: padded_height of a proof with exactly one Log2PaddedHeight item of
\* value k returns 2^k; it returns an error when the proof has no such item
\* and an error when it has more than one.
C25_PaddedHeightOfProof ==
    (proof_pc = "done" /\ ProofStream_try_from(proof).ok) =>
        /\ Len(exponents_in_proof) = 1 =>
              proof_height = Ok(PowerOfTwo(exponents_in_proof[1]))
        /\ Len(exponents_in_proof) = 0 =>
              proof_height = Err("ProofStreamError::NoLog2PaddedHeight")
        /\ Len(exponents_in_proof) > 1 =>
              proof_height = Err("ProofStreamError::TooManyLog2PaddedHeights")

\* the same for the proofs whose exponents are below the width of usize
C25_PaddedHeightBelowWidth ==
    (/\ proof_pc = "done" /\ ProofStream_try_from(proof).ok
     /\ \A k \in DOMAIN exponents_in_proof : exponents_in_proof[k] < USIZE_BITS)
        => C25_PaddedHeightOfProof

\* one Log2PaddedHeight item among others, its exponent below the width
C25_Witness ==
    /\ proof_pc = "done"
    /\ ProofStream_try_from(proof).ok
    /\ Len(ProofStream_try_from(proof).val) = MaxItems
    /\ Len(exponents_in_proof) = 1
    /\ proof_height = Ok(PowerOfTwo(8))

----------------------------------------------------------------------------
(* table/cross_table_argument.rs: the terminals of the cross-table arguments *)

XFIELD_ZERO == lift(0)
XFIELD_ONE == lift(1)

\* XFieldElement::inverse: the library panics on zero
xfe_inverse(x) ==
    IF x = XFIELD_ZERO THEN Panic("Cannot invert the zero element in the extension field.")
    ELSE Ok(CHOOSE y \in XField : xfe_operation("Mul", x, y) = XFIELD_ONE)

\* a fold that evaluates initial * x^n + the symbols as coefficients
RECURSIVE PermArg_compute_terminal_by_evaluation(_, _, _)
PermArg_compute_terminal_by_evaluation(syms, init, chal) ==
    IF syms = <<>> THEN init
    ELSE PermArg_compute_terminal_by_evaluation(
             Tail(syms),
             xfe_operation("Sub", xfe_operation("Mul", chal, init), lift(Head(syms))),
             chal)

\* a fold over symbol - challenge
RECURSIVE PermArg_compute_terminal_negated(_, _, _)
PermArg_compute_terminal_negated(syms, init, chal) ==
    IF syms = <<>> THEN init
    ELSE PermArg_compute_terminal_negated(
             Tail(syms),
             xfe_operation("Mul", init, xfe_operation("Sub", lift(Head(syms)), chal)),
             chal)

\* PermArg::compute_terminal
RECURSIVE PermArg_compute_terminal(_, _, _)
PermArg_compute_terminal(syms, init, chal) ==
    IF syms = <<>> THEN init
    ELSE PermArg_compute_terminal(
             Tail(syms),
             xfe_operation("Mul", init, xfe_operation("Sub", chal, lift(Head(syms)))),
             chal)

\* EvalArg::compute_terminal
RECURSIVE EvalArg_compute_terminal(_, _, _)
EvalArg_compute_terminal(syms, init, chal) ==
    IF syms = <<>> THEN init
    ELSE EvalArg_compute_terminal(
             Tail(syms),
             xfe_operation("Add", xfe_operation("Mul", chal, init), lift(Head(syms))),
             chal)

\* the sum of LookupArg::compute_terminal, every summand an inverse that exists
RECURSIVE sum_of_inverses(_, _, _)
sum_of_inverses(syms, init, chal) ==
    IF syms = <<>> THEN init
    ELSE sum_of_inverses(
             Tail(syms),
             xfe_operation("Add", init,
                           xfe_inverse(xfe_operation("Sub", chal, lift(Head(syms)))).val),
             chal)

\* LookupArg::compute_terminal: Ok(terminal), or the panic of the inverse
LookupArg_compute_terminal(syms, init, chal) ==
    IF \E k \in DOMAIN syms : chal = lift(syms[k])
    THEN xfe_inverse(XFIELD_ZERO)
    ELSE Ok(sum_of_inverses(syms, init, chal))

\* the longest list of symbols
MaxSymbols == 2

SymbolValues == {1, 2, 3, FieldP - 1}

SymbolLists == UNION { [1..n -> SymbolValues] : n \in 0..MaxSymbols }

Initials == {XFIELD_ONE, XFIELD_ZERO, <<2, 3>>}

Challenges == {lift(0), lift(1), lift(5), <<3, 1>>, <<0, 5>>}

InitTerminals ==
    /\ arg_pc = "chosen"
    /\ symbols \in SymbolLists
    /\ other_symbols \in SymbolLists
    /\ initial \in Initials
    /\ challenge \in Challenges
    /\ terminals = <<>>
    /\ other_terminals = <<>>
    /\ IdleBeyondTerminals

\* PermArg::compute_terminal for both lists
ComputePermArg ==
    /\ arg_pc = "chosen"
    /\ terminals' = Ok(PermArg_compute_terminal(symbols, initial, challenge))
    /\ other_terminals' = Ok(PermArg_compute_terminal(other_symbols, initial, challenge))
    /\ arg_pc' = "PermArg"
    /\ UNCHANGED <<symbols, other_symbols, initial, challenge, beyondTerminals>>

\* EvalArg::compute_terminal for both lists
ComputeEvalArg ==
    /\ arg_pc = "chosen"
    /\ terminals' = Ok(EvalArg_compute_terminal(symbols, initial, challenge))
    /\ other_terminals' = Ok(EvalArg_compute_terminal(other_symbols, initial, challenge))
    /\ arg_pc' = "EvalArg"
    /\ UNCHANGED <<symbols, other_symbols, initial, challenge, beyondTerminals>>

\* LookupArg::compute_terminal for both lists
ComputeLookupArg ==
    /\ arg_pc = "chosen"
    /\ terminals' = LookupArg_compute_terminal(symbols, initial, challenge)
    /\ other_terminals' = LookupArg_compute_terminal(other_symbols, initial, challenge)
    /\ arg_pc' = "LookupArg"
    /\ UNCHANGED <<symbols, other_symbols, initial, challenge, beyondTerminals>>

NextTerminals == ComputePermArg \/ ComputeEvalArg \/ ComputeLookupArg

SpecTerminals == InitTerminals /\ [][NextTerminals]_vars

\* C26: with initial 1 the PermArg terminal of the empty list is 1 and that
\* of [s] is challenge - s; with initial 1 the EvalArg terminal of [s] is
\* challenge + s; with initial 0 the LookupArg terminal of [s] is the inverse
\* of challenge - s.
C26_TerminalBaseCases ==
    /\ (arg_pc = "PermArg" /\ initial = XFIELD_ONE /\ symbols = <<>>) =>
           terminals = Ok(XFIELD_ONE)
    /\ (arg_pc = "PermArg" /\ initial = XFIELD_ONE /\ Len(symbols) = 1) =>
           terminals = Ok(xfe_operation("Sub", challenge, lift(symbols[1])))
    /\ (arg_pc = "EvalArg" /\ initial = XFIELD_ONE /\ Len(symbols) = 1) =>
           terminals = Ok(xfe_operation("Add", challenge, lift(symbols[1])))
    /\ (/\ arg_pc = "LookupArg" /\ initial = XFIELD_ZERO /\ Len(symbols) = 1
        /\ challenge # lift(symbols[1])) =>
           /\ terminals.ok
           /\ xfe_operation("Mul", terminals.val,
                            xfe_operation("Sub", challenge, lift(symbols[1]))) = XFIELD_ONE

\* the lookup terminal of one symbol for a challenge outside the base field
C26_Witness ==
    /\ arg_pc = "LookupArg" /\ initial = XFIELD_ZERO /\ Len(symbols) = 1
    /\ challenge[2] # 0
    /\ terminals.ok /\ terminals.val \notin {XFIELD_ZERO, XFIELD_ONE}

\* how often a value occurs in a list
occurrences_of(value, syms) == Cardinality({k \in DOMAIN syms : syms[k] = value})

equal_as_multisets(a, b) == \A value \in BField : occurrences_of(value, a) = occurrences_of(value, b)

\* C27 as stated: for one initial and one challenge the PermArg terminals of
\* two lists are equal if and only if the lists are equal as multisets.
C27_AsStated ==
    arg_pc = "PermArg" =>
        (terminals = other_terminals <=> equal_as_multisets(symbols, other_symbols))

\* C27, amended: lists that are equal as multisets have equal PermArg
\* terminals for every initial and challenge, so the terminal is invariant
\* under reordering; and two lists whose terminals agree for a nonzero
\* initial at every challenge of the field are equal as multisets.
C27_PermArgOfMultisets ==
    arg_pc = "PermArg" =>
        /\ equal_as_multisets(symbols, other_symbols) => terminals = other_terminals
        /\ (/\ initial # XFIELD_ZERO
            /\ \A chal \in XField :
                  PermArg_compute_terminal(symbols, initial, chal)
                      = PermArg_compute_terminal(other_symbols, initial, chal))
               => equal_as_multisets(symbols, other_symbols)

\* two different orders of the same symbols, and equal terminals other than 0
C27_Witness ==
    /\ arg_pc = "PermArg"
    /\ symbols # other_symbols
    /\ equal_as_multisets(symbols, other_symbols)
    /\ terminals = other_terminals
    /\ terminals.val # XFIELD_ZERO

\* lists that differ as multisets and have the same terminal, for a nonzero
\* initial and a challenge that is none of the symbols
C27_UnequalListsEqualTerminals ==
    /\ arg_pc = "PermArg"
    /\ initial = XFIELD_ONE
    /\ \A k \in DOMAIN symbols : challenge # lift(symbols[k])
    /\ \A k \in DOMAIN other_symbols : challenge # lift(other_symbols[k])
    /\ ~equal_as_multisets(symbols, other_symbols)
    /\ terminals = other_terminals

----------------------------------------------------------------------------
(* the node one pass of lower_to_degree substitutes *)

\* the node is chosen by the rule: it lies below a node of degree above the
\* target that is reachable from a root, its degree is above 1 and at most
\* the target, no such node occurs more often below the nodes of high
\* degree, and none that occurs as often has a higher degree
chosen_by_rule(b, multicircuit, target_deg, chosen) ==
    \E high \in {{id \in ids_in_multicircuit(b, {multicircuit[i] : i \in DOMAIN multicircuit})
                    : degree(b, id) > target_deg}} :
    \E kept \in {high_degree_nodes(b, multicircuit, target_deg)} :
    \E descendants \in {{id \in UNION {nodes_below(b, h) : h \in high}
                            : degree(b, id) > 1 /\ degree(b, id) <= target_deg}} :
    \E count \in {[id \in descendants |-> occurrences_in_multicircuit(b, kept, shape(b, id))]} :
       /\ chosen \in descendants
       /\ \A other \in descendants : count[other] <= count[chosen]
       /\ \A other \in descendants :
             count[other] = count[chosen] => degree(b, other) <= degree(b, chosen)

\* C29: the node a pass of the degree lowering substitutes lies below a node
\* of degree above d that is reachable from a root, has a degree in (1, d],
\* occurs most often among these descendants and has the highest degree of
\* those that occur most often.
C29_ChosenNode ==
    [][(circuit_pc = "lower" /\ last_call' # last_call) =>
          chosen_by_rule(builder, circuits, target_degree,
                         last_call'.substitutions[Len(last_call'.substitutions)].chosen_node)]_vars

\* a pass has chosen between candidates that differ in how often they occur,
\* and between candidates that occur equally often and differ in degree
C29_Witness ==
    /\ circuit_pc = "lower"
    /\ Len(last_call.substitutions) = 1
    /\ Len(last_call.candidates) = 1
    /\ \E chosen \in {last_call.substitutions[1].chosen_node} :
          /\ chosen \in last_call.candidates[1]
          /\ \E other \in last_call.candidates[1] :
                last_call.occurrences[1][other] < last_call.occurrences[1][chosen]
          /\ \E other \in last_call.candidates[1] :
                /\ other # chosen
                /\ last_call.occurrences[1][other] = last_call.occurrences[1][chosen]

----------------------------------------------------------------------------
(* constant folding of a node over two constants *)

is_constant(term) == term.kind \in {"BConstant", "XConstant"}

\* the circuit a is one operator over two constant leaves
ConstantOnly ==
    /\ plan.a.kind = "Term"
    /\ is_constant(plan.a.lhs) /\ is_constant(plan.a.rhs)

\* the value of a constant in the extension field
value_in_extension(constant) ==
    IF constant.kind = "BConstant" THEN lift(constant.value) ELSE constant.value

\* the value of the circuit a in the extension field
value_of_a ==
    xfe_operation(plan.a.op, value_in_extension(plan.a.lhs), value_in_extension(plan.a.rhs))

\* C30 as stated: folding a node over two constants leaves a base-field
\* constant when both operands are base-field constants and an
\* extension-field constant in every other case.
C30_AsStated ==
    (circuit_pc = "folded" /\ ConstantOnly) =>
        shape(builder, RootNamed("a")) =
            IF plan.a.lhs.kind = "BConstant" /\ plan.a.rhs.kind = "BConstant"
            THEN BConstant(bfe_operation(plan.a.op, plan.a.lhs.value, plan.a.rhs.value))
            ELSE XConstant(value_of_a)

\* C30, amended: folding a node over two constants leaves the constant of
\* its value; the constant is a base-field constant exactly when the value
\* lies in the base field, which it always does for two base-field operands,
\* and an extension-field constant otherwise.
C30_FoldedConstant ==
    (circuit_pc = "folded" /\ ConstantOnly) =>
        /\ shape(builder, RootNamed("a")) =
               IF value_of_a[2] = 0 THEN BConstant(value_of_a[1]) ELSE XConstant(value_of_a)
        /\ (plan.a.lhs.kind = "BConstant" /\ plan.a.rhs.kind = "BConstant") =>
               shape(builder, RootNamed("a")) =
                   BConstant(bfe_operation(plan.a.op, plan.a.lhs.value, plan.a.rhs.value))

\* a base-field and an extension-field constant have been folded into an
\* extension-field constant that is neither operand
C30_Witness ==
    /\ circuit_pc = "folded" /\ ConstantOnly
    /\ plan.a.lhs.kind = "BConstant" /\ plan.a.rhs.kind = "XConstant"
    /\ shape(builder, RootNamed("a")).kind = "XConstant"
    /\ shape(builder, RootNamed("a")) \notin {plan.a.lhs, plan.a.rhs}

\* two extension-field constants have been folded into a base-field constant
C30_ExtensionOperandsBaseResult ==
    /\ circuit_pc = "folded" /\ ConstantOnly
    /\ plan.a.lhs.kind = "XConstant" /\ plan.a.rhs.kind = "XConstant"
    /\ shape(builder, RootNamed("a")).kind = "BConstant"

----------------------------------------------------------------------------
(* SpecCalls: a caller hands co-processor calls of every kind to an AET *)

\* the most calls a caller records
MaxCalls == 3

\* the calls: permutation traces under the instructions that trigger one and
\* under two that do not, a sponge reset, and one call for each other table
CallSample ==
    LET at_start == VMState_new(<<I("Halt")>>, <<>>, <<>>) IN
    { Tip5Trace(I(op), Tip5_trace(first_state))
        : op \in {"Hash", "Absorb", "Squeeze", "AbsorbInit", "Nop"},
          first_state \in {HashInput(BFIELD_ONE), Absorbing(Tip5_init, <<BFIELD_ONE>>)} }
    \cup { SpongeStateReset,
           U32Call(I("Lt"), BFieldElement_new(3), BFieldElement_new(258)),
           OpStackCall(at_start, "write", BFIELD_ONE),
           RamCall(at_start, BFIELD_ONE, BFIELD_ZERO, TRUE) }

InitCalls ==
    /\ pc = "calls"
    /\ program = <<I("Halt")>>
    /\ aet = AlgebraicExecutionTrace_new(program)
    /\ state = <<>>
    /\ pending_call = None
    /\ result = Err("none")
    /\ issue_log = <<>>
    /\ IdleBeyondTrace

\* aet.record_co_processor_call(call)
RecordAnyCall ==
    /\ pc = "calls"
    /\ Len(issue_log) < MaxCalls
    /\ \E call \in CallSample :
          \E outcome \in {record_co_processor_call(aet, call)} :
             /\ aet' = outcome.aet
             /\ pending_call' = Some(call)
             /\ issue_log' = Append(issue_log, call)
             /\ IF outcome.res.ok
                THEN UNCHANGED <<pc, result>>
                ELSE pc' = "done" /\ result' = outcome.res
    /\ UNCHANGED <<program, state, beyondTrace>>

NextCalls == RecordAnyCall

SpecCalls == InitCalls /\ [][NextCalls]_vars

\* the fields of an AET other than the named ones are the same in both
same_but(before, after, fields) ==
    \A field \in (DOMAIN before) \ fields : after[field] = before[field]

LookupFields == {"cascade_table_lookup_multiplicities", "lookup_table_lookup_multiplicities"}

\* the rows of a trace with the opcode of an instruction in column CI
stamped_rows(trace, instruction) ==
    [r \in 1..Len(trace) |->
        [round_no |-> r - 1, st |-> trace[r], CI |-> BFieldElement_new(opcode(instruction))]]

\* what one recorded call has done to the AET
dispatched(before, after, call, returned) ==
    CASE call.kind = "Tip5Trace" /\ call.instruction = I("Hash") ->
            /\ after.hash_trace = before.hash_trace \o stamped_rows(call.trace, I("Hash"))
            /\ same_but(before, after, {"hash_trace"} \cup LookupFields)
            /\ returned = Err("none")
      [] call.kind = "Tip5Trace" /\ call.instruction \in {I("Absorb"), I("Squeeze")} ->
            /\ after.sponge_trace
                   = before.sponge_trace \o stamped_rows(call.trace, call.instruction)
            /\ same_but(before, after, {"sponge_trace"} \cup LookupFields)
            /\ returned = Err("none")
      [] call.kind = "Tip5Trace"
            /\ call.instruction \notin {I("Hash"), I("Absorb"), I("Squeeze")} ->
            /\ after = before
            /\ ~returned.ok /\ returned # Err("none")
      [] call.kind = "SpongeStateReset" ->
            /\ after.sponge_trace
                   = Append(before.sponge_trace,
                            [round_no |-> 0, st |-> [k \in 1..STATE_SIZE |-> BFIELD_ZERO],
                             CI |-> BFieldElement_new(opcode(I("AbsorbInit")))])
            /\ same_but(before, after, {"sponge_trace"})
            /\ returned = Err("none")
      [] call.kind = "U32Call" ->
            same_but(before, after, {"u32_entries"}) /\ after.u32_entries # before.u32_entries
      [] call.kind = "OpStackCall" ->
            /\ same_but(before, after, {"op_stack_underflow_trace"})
            /\ after.op_stack_underflow_trace = Append(before.op_stack_underflow_trace, call.entry)
      [] call.kind = "RamCall" ->
            /\ same_but(before, after, {"ram_trace"})
            /\ after.ram_trace = Append(before.ram_trace, call.entry)

\* C31: record_co_processor_call hands each call to one table. A trace of
\* hash is appended to the hash trace only, every row with the opcode of
\* hash; a trace of absorb or squeeze to the sponge trace only, every row
\* with that opcode; a sponge reset appends one row of round 0 with the
\* initial state and the opcode of the sponge initialisation to the sponge
\* trace; a trace under another instruction is rejected and changes nothing.
C31_CallDispatch ==
    [][issue_log' # issue_log =>
          dispatched(aet, aet', pending_call'.val, result')]_vars

\* a hash trace, a sponge reset and a sponge trace have been recorded, and a
\* trace under an instruction that triggers none has been rejected
C31_Witness ==
    /\ pc = "done" /\ ~result.ok
    /\ Len(aet.hash_trace) = NUM_ROUNDS + 1
    /\ Len(aet.sponge_trace) = 1
    /\ pending_call.val.kind = "Tip5Trace"
    /\ pending_call.val.instruction = I("Nop")

----------------------------------------------------------------------------
(* the variables of the substitution rules of lower_to_degree *)

\* assert_substitution_rule_uses_legal_variables: no assertion fails
RECURSIVE uses_legal_variables(_, _, _)
uses_legal_variables(b, new_var, substitution_rule) ==
    LET expression == b.heap[substitution_rule] IN
    CASE expression.kind = "BinaryOperation" ->
            /\ uses_legal_variables(b, new_var, expression.lhs)
            /\ uses_legal_variables(b, new_var, expression.rhs)
      [] expression.kind = "Input" ->
            LET old_var == expression.indicator IN
            CASE new_var.row = "BaseRow" /\ old_var.row = "BaseRow" ->
                    old_var.index < new_var.index
              [] new_var.row = "BaseRow" /\ old_var.row # "BaseRow" -> FALSE
              [] new_var.row # "BaseRow" /\ old_var.row = "BaseRow" -> TRUE
              [] OTHER -> old_var.index < new_var.index
      [] OTHER -> TRUE

\* a returned constraint is v - n with v an input and n using legal variables
is_legal_rule(b, constraint) ==
    /\ b.heap[constraint].kind = "BinaryOperation"
    /\ b.heap[constraint].op = "Sub"
    /\ b.heap[b.heap[constraint].lhs].kind = "Input"
    /\ uses_legal_variables(b, b.heap[b.heap[constraint].lhs].indicator,
                            b.heap[constraint].rhs)

C32_LegalWhenIntroduced ==
    [][(circuit_pc = "lower" /\ last_call' # last_call) =>
          is_legal_rule(builder', last_call'.substitutions[Len(last_call'.substitutions)]
                                      .new_constraint)]_vars

----------------------------------------------------------------------------
(* the fixed point of constant_folding *)

is_constant_leaf(b, id) == b.heap[id].kind \in {"BConstant", "XConstant"}

\* a binary node one of the rewriting rules applies to
can_be_folded(b, id) ==
    LET expression == b.heap[id] IN
    /\ expression.kind = "BinaryOperation"
    /\ \/ expression.op = "Add"
          /\ (is_zero(b, expression.lhs) \/ is_zero(b, expression.rhs))
       \/ expression.op = "Sub" /\ is_zero(b, expression.rhs)
       \/ expression.op = "Mul"
          /\ \/ is_zero(b, expression.lhs) \/ is_zero(b, expression.rhs)
             \/ is_one(b, expression.lhs) \/ is_one(b, expression.rhs)
       \/ is_constant_leaf(b, expression.lhs) /\ is_constant_leaf(b, expression.rhs)

\* C33: constant_folding returns for every multicircuit, and when it has
\* returned no node reachable from a root is a binary node with a zero
\* operand of an addition, a zero right operand of a subtraction, a zero
\* or one operand of a multiplication or two constant operands; folding
\* the result again changes nothing.
C33_FoldingFixedPoint ==
    /\ circuit_pc = "built" => ENABLED FoldMulticircuit
    /\ circuit_pc = "folded" =>
          /\ \A i \in DOMAIN circuits :
                \A id \in nodes_below(builder, circuits[i]) : ~can_be_folded(builder, id)
          /\ constant_folding(builder, circuits) = Multicircuit(builder, circuits)

\* a folded multicircuit with a root whose two operands were binary nodes
\* that could be folded and are inputs now
C33_Witness ==
    /\ circuit_pc = "folded"
    /\ \E i \in DOMAIN circuits :
          /\ plan.terms[i].kind = "Term"
          /\ plan.terms[i].lhs.kind = "Term"
          /\ plan.terms[i].lhs.rhs = BConstant(0)
          /\ plan.terms[i].rhs.kind = "Term"
          /\ builder.heap[circuits[i]].kind = "BinaryOperation"
          /\ builder.heap[builder.heap[circuits[i]].lhs].kind = "Input"
          /\ builder.heap[builder.heap[circuits[i]].rhs].kind = "Input"

----------------------------------------------------------------------------
(* SpecHashing: equality and hashes of the nodes of a builder, while nodes  *)
(* are visited, created and rewritten                                       *)

\* the struct ConstraintCircuit of a node; the builder record carries the
\* visited counters of its nodes in the field visited_counter
ConstraintCircuit_at(b, id) ==
    [id |-> id, visited_counter |-> b.visited_counter[id], expression |-> b.heap[id]]

\* what the hasher is fed for a tag, an operator and an indicator
hashed_tag(tag) ==
    CASE tag = "bfe" -> 1 [] tag = "xfe" -> 2 [] tag = "input" -> 3
      [] tag = "challenge" -> 4 [] tag = "binop" -> 5
hashed_binop(op) == CASE op = "Add" -> 0 [] op = "Mul" -> 1 [] op = "Sub" -> 2
hashed_indicator(indicator) ==
    <<IF indicator.row = "BaseRow" THEN 0 ELSE 1, indicator.index>>

\* Hash for ConstraintCircuit with the id of the node written first
RECURSIVE hash_with_id(_, _, _)
hash_with_id(b, hasher, id) ==
    LET self == ConstraintCircuit_at(b, id)
        expression == self.expression
        written == Append(hasher, self.id)
    IN CASE expression.kind = "BConstant" ->
               written \o <<hashed_tag("bfe"), expression.value>>
         [] expression.kind = "XConstant" ->
               written \o <<hashed_tag("xfe")>> \o expression.value
         [] expression.kind = "Input" ->
               written \o <<hashed_tag("input")>> \o hashed_indicator(expression.indicator)
         [] expression.kind = "Challenge" ->
               written \o <<hashed_tag("challenge"), expression.challenge>>
         [] expression.kind = "BinaryOperation" ->
               hash_with_id(b,
                   hash_with_id(b, written \o <<hashed_tag("binop"), hashed_binop(expression.op)>>,
                                expression.lhs),
                   expression.rhs)

\* Hash for ConstraintCircuit and for CircuitExpression: what the node
\* writes to the hasher
RECURSIVE hash(_, _, _)
hash(b, hasher, id) ==
    LET self == ConstraintCircuit_at(b, id)
        expression == self.expression
    IN CASE expression.kind = "BConstant" ->
               hasher \o <<hashed_tag("bfe"), expression.value>>
         [] expression.kind = "XConstant" ->
               hasher \o <<hashed_tag("xfe")>> \o expression.value
         [] expression.kind = "Input" ->
               hasher \o <<hashed_tag("input")>> \o hashed_indicator(expression.indicator)
         [] expression.kind = "Challenge" ->
               hasher \o <<hashed_tag("challenge"), expression.challenge>>
         [] expression.kind = "BinaryOperation" ->
               hash(b,
                    hash(b, hasher \o <<hashed_tag("binop"), hashed_binop(expression.op)>>,
                         expression.lhs),
                    expression.rhs)

\* a stand-in for DefaultHasher::finish: a digest of what was written
HasherModulus == 65521
RECURSIVE finish_from(_, _)
finish_from(digest, written) ==
    IF written = <<>> THEN digest
    ELSE finish_from((digest * 31 + Head(written) + 1) % HasherModulus, Tail(written))
finish(written) == finish_from(7, written)

\* the digest the tests compute: DefaultHasher::new(), hash, finish
digest_of(b, id) == finish(hash(b, <<>>, id))

\* PartialEq for ConstraintCircuit and for CircuitExpression
RECURSIVE eq(_, _, _)
eq(b, self, other) ==
    LET expression_self == ConstraintCircuit_at(b, self).expression
        expression_other == ConstraintCircuit_at(b, other).expression
    IN CASE expression_self.kind = "BConstant" /\ expression_other.kind = "BConstant" ->
               expression_self.value = expression_other.value
         [] expression_self.kind = "XConstant" /\ expression_other.kind = "XConstant" ->
               expression_self.value = expression_other.value
         [] expression_self.kind = "Input" /\ expression_other.kind = "Input" ->
               expression_self.indicator = expression_other.indicator
         [] expression_self.kind = "Challenge" /\ expression_other.kind = "Challenge" ->
               expression_self.challenge = expression_other.challenge
         [] expression_self.kind = "BinaryOperation"
               /\ expression_other.kind = "BinaryOperation" ->
               /\ expression_self.op = expression_other.op
               /\ eq(b, expression_self.lhs, expression_other.lhs)
               /\ eq(b, expression_self.rhs, expression_other.rhs)
         [] OTHER -> FALSE

\* how often count_nodes_inner comes by a node on its walk from a root
RECURSIVE visits_from(_, _, _)
visits_from(b, root, id) ==
    (IF root = id THEN 1 ELSE 0)
    + (IF b.heap[root].kind = "BinaryOperation"
       THEN visits_from(b, b.heap[root].lhs, id) + visits_from(b, b.heap[root].rhs, id)
       ELSE 0)

\* ConstraintCircuit::count_nodes on one constraint: the visited counters of
\* its tree are reset and then count the visits
count_nodes(b, constraint) ==
    [b EXCEPT !.visited_counter =
        [id \in DOMAIN @ |-> IF id \in nodes_below(b, constraint)
                             THEN visits_from(b, constraint, id) ELSE @[id]]]

\* a node made by the builder starts with visited counter 0
with_counters(b, counters) ==
    [id_counter |-> b.id_counter, all_nodes |-> b.all_nodes, heap |-> b.heap,
     filed |-> b.filed, resize_at |-> b.resize_at,
     visited_counter |-> [id \in DOMAIN b.heap |->
                             IF id \in DOMAIN counters THEN counters[id] ELSE 0]]

\* the steps a run takes
MaxHashingSteps == 2

HashingSample ==
    LET x == Input(BaseRow(0))
        y == Input(BaseRow(1))
    IN {<<Term("Add", x, x), Term("Add", y, x)>>,
        <<Term("Mul", Term("Add", x, y), x), Term("Mul", Term("Add", x, x), y)>>,
        <<Term("Sub", XConstant(<<0, 1>>), Challenge(0)), Term("Sub", Challenge(0), BConstant(1))>>,
        <<Term("Mul", BConstant(1), BConstant(2)), Term("Mul", BConstant(2), BConstant(2))>>}

InitHashing ==
    /\ circuit_pc = "hashing"
    /\ plan \in {[terms |-> terms] : terms \in HashingSample}
    /\ \E made \in {build_all(ConstraintCircuitBuilder_new({}), plan.terms)} :
          /\ builder = with_counters(made.builder, <<>>)
          /\ circuits = made.circuits
    /\ last_call = [fn |-> "build"]
    /\ rewrites = 0
    /\ NoLowering
    /\ IdleBeyondCircuits

unchangedByHashing == <<circuit_pc, plan, circuits, target_degree, num_base_cols, num_ext_cols,
                        base_constraints, ext_constraints, beyondCircuits>>

\* circuit.circuit.borrow_mut().visited_counter += 1
VisitNode ==
    /\ circuit_pc = "hashing" /\ rewrites < MaxHashingSteps
    /\ \E i \in DOMAIN circuits :
          /\ builder' = [builder EXCEPT !.visited_counter[circuits[i]] = @ + 1]
          /\ last_call' = [fn |-> "visit", node |-> circuits[i]]
    /\ rewrites' = rewrites + 1
    /\ UNCHANGED unchangedByHashing

\* ConstraintCircuit::count_nodes(&mut [constraint])
CountNodes ==
    /\ circuit_pc = "hashing" /\ rewrites < MaxHashingSteps
    /\ \E i \in DOMAIN circuits :
          /\ builder' = count_nodes(builder, circuits[i])
          /\ last_call' = [fn |-> "count_nodes", node |-> circuits[i]]
    /\ rewrites' = rewrites + 1
    /\ UNCHANGED unchangedByHashing

\* a further node is made of two constraints: the id counter grows
CreateNode ==
    /\ circuit_pc = "hashing" /\ rewrites < MaxHashingSteps
    /\ \E op \in BinOps, i \in DOMAIN circuits, j \in DOMAIN circuits :
          \E made \in {binop(builder, op, circuits[i], circuits[j])} :
             /\ builder' = with_counters(made.builder, builder.visited_counter)
             /\ last_call' = [fn |-> "binop", node |-> made.node]
    /\ rewrites' = rewrites + 1
    /\ UNCHANGED unchangedByHashing

\* builder.substitute(old_id, new), as constant_folding and lower_to_degree
\* call it: the expressions of the parents of the old node change
SubstituteNode ==
    /\ circuit_pc = "hashing" /\ rewrites < MaxHashingSteps
    /\ \E old_id \in builder.all_nodes, new \in builder.all_nodes :
          /\ old_id \notin nodes_below(builder, new)
          /\ builder' = substitute(builder, old_id, new)
          /\ last_call' = [fn |-> "substitute", node |-> old_id]
    /\ rewrites' = rewrites + 1
    /\ UNCHANGED unchangedByHashing

NextHashing == VisitNode \/ CountNodes \/ CreateNode \/ SubstituteNode

SpecHashing == InitHashing /\ [][NextHashing]_vars

\* equal nodes have equal digests
equal_nodes_hash_equally(b) ==
    \A self \in DOMAIN b.heap, other \in DOMAIN b.heap :
        eq(b, self, other) => digest_of(b, self) = digest_of(b, other)

\* C34: equality and hashes of nodes depend on the expressions only. Two
\* nodes that compare equal have the same hash, and a step that changes a
\* visited counter or makes a further node, so that the id counter of the
\* builder grows, changes neither the hash of a node nor whether it equals
\* another node.
C34_StructuralEqualityAndHash ==
    [][/\ equal_nodes_hash_equally(builder)
       /\ equal_nodes_hash_equally(builder')
       /\ last_call'.fn \in {"visit", "count_nodes", "binop"} =>
             \A self \in DOMAIN builder.heap :
                /\ digest_of(builder', self) = digest_of(builder, self)
                /\ \A other \in DOMAIN builder.heap :
                      eq(builder', self, other) = eq(builder, self, other)]_vars

\* two nodes with different ids are equal, and the visited counter of one
\* of them has just been raised
C34_Witness ==
    /\ circuit_pc = "hashing"
    /\ \E self \in DOMAIN builder.heap, other \in DOMAIN builder.heap :
          /\ self # other /\ eq(builder, self, other)
          /\ builder.visited_counter[self] > 0
    /\ last_call.fn = "visit"

----------------------------------------------------------------------------
(* the number of steps of debug and debug_terminal_state *)

\* the cycle count the driver started from
StartCycle == IF initial_state.some THEN initial_state.val.cycle_count ELSE 0

\* the calls of step the driver has made: every successful one has raised
\* the cycle count by one, a failed one has ended the driver
StepsExecuted ==
    (dbg_state.cycle_count - StartCycle) + (IF stopped_by = "error" THEN 1 ELSE 0)

\* C35: with num_cycles_to_execute = Some(n), debug and debug_terminal_state
\* execute at most n steps from an initial state of any cycle count c, also
\* when c + n is above the largest u32; the vector debug returns starts
\* with the initial state and, when there is no error, holds one state more
\* than steps were executed.
C35_AtMostNSteps ==
    /\ (dbg_pc \in {"loop", "done"} /\ num_cycles_to_execute.some) =>
          StepsExecuted <= num_cycles_to_execute.val
    /\ (dbg_pc \in {"start", "loop"} /\ driver = "debug") =>
          Len(states) = StepsExecuted
    /\ (dbg_pc = "done" /\ driver = "debug" /\ stopped_by # "panic") =>
          /\ initial_state.some => dbg_result.states[1] = initial_state.val
          /\ dbg_result.states[1].cycle_count = StartCycle
          /\ ~dbg_result.error.some => Len(dbg_result.states) = StepsExecuted + 1
          /\ dbg_result.error.some => Len(dbg_result.states) = StepsExecuted

\* debug has returned from a start at a cycle count c with c + n above the
\* largest u32: no step, and the initial state alone
C35_Witness ==
    /\ dbg_pc = "done" /\ driver = "debug" /\ stopped_by = "cap"
    /\ initial_state.some /\ num_cycles_to_execute.some
    /\ initial_state.val.cycle_count + num_cycles_to_execute.val > U32_MAX
    /\ dbg_result.states = <<initial_state.val>>

\* debug_terminal_state has executed exactly n = 2 steps from cycle count 3
C35_StoppedAfterNSteps ==
    /\ dbg_pc = "done" /\ driver = "debug_terminal_state" /\ stopped_by = "cap"
    /\ initial_state.some /\ num_cycles_to_execute = Some(2)
    /\ StepsExecuted = 2

----------------------------------------------------------------------------
(* SpecProfile: program.rs, profile *)

\* build_label_to_address_map(labelled_instructions) with label and address
\* swapped
address_to_label_map_of(labelled_instructions) ==
    LET label_map == label_map_pass(labelled_instructions, <<>>, 0) IN
    [address \in {label_map[name] : name \in DOMAIN label_map} |->
        CHOOSE name \in DOMAIN label_map : label_map[name] = address]

ProfileLine_new(call_stack_depth, label, cycle_count) ==
    [call_stack_depth |-> call_stack_depth, label |-> label, cycle_count |-> cycle_count]

\* the loop after the while loop: the lines of the calls that are still open
close_open_calls(lines, open_calls, s) ==
    [k \in DOMAIN lines |->
        IF \E c \in DOMAIN open_calls : open_calls[c].profile_line_number = k - 1
        THEN LET c == CHOOSE c \in DOMAIN open_calls :
                          open_calls[c].profile_line_number = k - 1
             IN [lines[k] EXCEPT !.cycle_count = s.cycle_count - open_calls[c].clk_start,
                                 !.label = <<@, " (open)">>]
        ELSE lines[k]]

ProfiledSources ==
    TracedSources \cup {<<LCall("f"), LI("Halt"), Label("f"), LI("Return")>>,
                        <<LCall("f"), LI("Return"), Label("f"), LI("Return")>>}

InitProfile ==
    /\ driver = "profile"
    /\ dbg_pc = "loop"
    /\ source \in ProfiledSources
    /\ codec_pc = "idle" /\ constructor = "none" /\ built = Err("none") /\ resolved = <<>>
    /\ encoded = <<>> /\ perturbation = "none" /\ decoded = Err("none")
    /\ \E public_input \in PublicInputs :
          dbg_state = VMState_new(Program_new(source).val, public_input, <<>>)
    /\ call_stack = <<>> /\ profile = <<>>
    /\ initial_state = None /\ num_cycles_to_execute = None
    /\ states = <<>> /\ max_cycles = 0
    /\ dbg_result = Err("none") /\ stopped_by = "none"
    /\ IsaIdle /\ TraceIdle /\ TwiceIdle /\ CircuitsIdle /\ ProofIdle /\ TerminalsIdle

unchangedByProfile == <<driver, initial_state, num_cycles_to_execute, states, max_cycles,
                        codecVars, isaVars, traceVars, twiceVars, circuitVars, proofVars,
                        argVars>>

\* profile returns from inside its loop
ProfileLeaves(returned, why) ==
    /\ dbg_result' = returned
    /\ stopped_by' = why
    /\ dbg_pc' = "done"

\* one pass of the loop while !state.halting
ProfileIteration ==
    /\ dbg_pc = "loop"
    /\ ~dbg_state.halting
    /\ dbg_state.cycle_count < MaxCycles
    /\ \E fetched \in {current_instruction(dbg_state)}, stepped \in {step(dbg_state)} :
       IF ~fetched.ok
       THEN /\ ProfileLeaves(fetched, "error")
            /\ UNCHANGED <<dbg_state, call_stack, profile>>
       ELSE IF fetched.val.op = "Return" /\ call_stack = <<>>
       THEN \* call_stack.pop().unwrap()
            /\ ProfileLeaves(Panic("called Option::unwrap() on a None value"), "panic")
            /\ UNCHANGED <<dbg_state, call_stack, profile>>
       ELSE /\ call_stack' =
                  CASE fetched.val.op = "Call" ->
                          Append(call_stack, [clk_start |-> dbg_state.cycle_count,
                                              profile_line_number |-> Len(profile)])
                    [] fetched.val.op = "Return" -> SubSeq(call_stack, 1, Len(call_stack) - 1)
                    [] OTHER -> call_stack
            /\ \E lines \in
                  {CASE fetched.val.op = "Call" ->
                          Append(profile,
                                 ProfileLine_new(Len(call_stack),
                                     address_to_label_map_of(source)[fetched.val.arg.lo], 0))
                     [] fetched.val.op = "Return" ->
                          [profile EXCEPT
                              ![call_stack[Len(call_stack)].profile_line_number + 1].cycle_count =
                                  dbg_state.cycle_count - call_stack[Len(call_stack)].clk_start]
                     [] OTHER -> profile} :
                  profile' = lines
            /\ IF stepped.res.ok
               THEN /\ dbg_state' = stepped.state
                    /\ UNCHANGED <<dbg_pc, dbg_result, stopped_by>>
               ELSE /\ dbg_state' \in AfterFailedStep(dbg_state)
                    /\ ProfileLeaves(stepped.res, "error")
    /\ UNCHANGED unchangedByProfile

\* the loop is left: the open calls are closed and the total is added
ProfileReturn ==
    /\ dbg_pc = "loop"
    /\ dbg_state.halting
    /\ profile' = Append(close_open_calls(profile, call_stack, dbg_state),
                         ProfileLine_new(0, "total", dbg_state.cycle_count))
    /\ dbg_result' = Ok([public_output |-> dbg_state.public_output, profile |-> profile'])
    /\ stopped_by' = "halt"
    /\ dbg_pc' = "done"
    /\ UNCHANGED <<dbg_state, call_stack, unchangedByProfile>>

NextProfile == ProfileIteration \/ ProfileReturn

SpecProfile == InitProfile /\ [][NextProfile]_vars

\* C36: profile returns an error value and does not abort for every
\* program whose execution fails, among them the program that executes
\* return while no call is open.
C36_ProfileReturnsError ==
    (dbg_pc = "done" /\ stopped_by # "halt") =>
        (stopped_by = "error" /\ ~dbg_result.ok /\ "err" \in DOMAIN dbg_result)

\* profile returns the error of a failing step when the failing instruction
\* is not a return without an open call
C36_ErrorsOfOtherInstructions ==
    (dbg_pc = "done" /\ stopped_by # "halt"
        /\ ~(current_instruction(dbg_state).ok
             /\ current_instruction(dbg_state).val.op = "Return"
             /\ dbg_state.jump_stack = <<>>)) =>
        (stopped_by = "error" /\ ~dbg_result.ok /\ "err" \in DOMAIN dbg_result)

----------------------------------------------------------------------------
(* SpecRun: program.rs, run next to trace_execution on the same program and *)
(* input                                                                    *)

InitRun ==
    /\ \E src \in TracedSources, public_input \in PublicInputs :
          /\ program = Program_new(src).val
          /\ aet = AlgebraicExecutionTrace_new(program)
          /\ state = VMState_new(program, public_input, <<>>)
          /\ dbg_state = VMState_new(program, public_input, <<>>)
    /\ pc = "loop"
    /\ pending_call = None
    /\ result = Err("none")
    /\ issue_log = <<>>
    /\ driver = "run"
    /\ dbg_pc = "loop"
    /\ initial_state = None /\ num_cycles_to_execute = None
    /\ states = <<>> /\ max_cycles = 0
    /\ dbg_result = Err("none") /\ stopped_by = "none"
    /\ IsaIdle /\ CodecIdle /\ TwiceIdle /\ CircuitsIdle /\ ProofIdle /\ TerminalsIdle
    /\ ProfileIdle

\* run: state.step()? inside while !state.halting; states keeps the states
\* the steps were made from
RunStep ==
    /\ driver = "run" /\ dbg_pc = "loop"
    /\ ~dbg_state.halting
    /\ dbg_state.cycle_count < MaxCycles
    /\ states' = Append(states, dbg_state)
    /\ \E stepped \in {step(dbg_state)} :
          IF stepped.res.ok
          THEN /\ dbg_state' = stepped.state
               /\ UNCHANGED <<dbg_pc, dbg_result, stopped_by>>
          ELSE /\ dbg_state' \in AfterFailedStep(dbg_state)
               /\ dbg_result' = stepped.res
               /\ stopped_by' = "error"
               /\ dbg_pc' = "done"
    /\ UNCHANGED <<driver, initial_state, num_cycles_to_execute, max_cycles, beyondDrivers>>

\* run: Ok(state.public_output)
RunReturn ==
    /\ driver = "run" /\ dbg_pc = "loop"
    /\ dbg_state.halting
    /\ dbg_result' = Ok(dbg_state.public_output)
    /\ stopped_by' = "halt"
    /\ dbg_pc' = "done"
    /\ UNCHANGED <<driver, initial_state, num_cycles_to_execute, dbg_state, states,
                   max_cycles, beyondDrivers>>

NextRun ==
    \/ RunStep \/ RunReturn
    \/ RecordState \/ LookupInstruction \/ Step \/ RecordCoProcessorCall \/ ReturnTrace

SpecRun == InitRun /\ [][NextRun]_vars

\* the states trace_execution has recorded, in their order
recorded_states(log) ==
    LET at == {k \in DOMAIN log : log[k].kind = "state"}
        nth(n) == CHOOSE k \in at : Cardinality({j \in at : j <= k}) = n
    IN [n \in 1..Cardinality(at) |-> log[nth(n)].state]

\* C37: run returns Ok(out) exactly if trace_execution returns Ok((aet,
\* out')), and then out = out'; both go through the same VM states, and the
\* AET has as many processor rows as steps were executed.
C37_RunAndTraceAgree ==
    (dbg_pc = "done" /\ pc = "done") =>
        \E recorded \in {recorded_states(issue_log)} :
           /\ dbg_result.ok = result.ok
           /\ dbg_result.ok =>
                 /\ result.val.public_output = dbg_result.val
                 /\ recorded = states
                 /\ Len(result.val.aet.processor_trace) = Len(states)
           /\ ~dbg_result.ok =>
                 /\ Len(recorded) <= Len(states)
                 /\ Len(states) <= Len(recorded) + 1
                 /\ recorded = SubSeq(states, 1, Len(recorded))

\* both have returned the output of a program that wrote to it after a call
C37_Witness ==
    /\ dbg_pc = "done" /\ pc = "done"
    /\ dbg_result.ok /\ result.ok
    /\ dbg_result.val # <<>>
    /\ Len(states) > 5

\* both have returned an error, trace_execution from record_state
C37_BothFail ==
    /\ dbg_pc = "done" /\ pc = "done"
    /\ ~dbg_result.ok /\ ~result.ok
    /\ Len(states) = Len(recorded_states(issue_log)) + 1

----------------------------------------------------------------------------
(* the value of a circuit *)

\* ConstraintCircuit::evaluate, with the rows and the challenges of an
\* assignment: base row values by column, extension row values by column,
\* challenges by id
RECURSIVE evaluate(_, _, _)
evaluate(b, id, assignment) ==
    LET expression == b.heap[id] IN
    CASE expression.kind = "XConstant" -> expression.value
      [] expression.kind = "BConstant" -> lift(expression.value)
      [] expression.kind = "Input" ->
            IF expression.indicator.row = "BaseRow"
            THEN lift(assignment.base_table[expression.indicator.index])
            ELSE assignment.ext_table[expression.indicator.index]
      [] expression.kind = "Challenge" -> assignment.challenges[expression.challenge]
      [] expression.kind = "BinaryOperation" ->
            xfe_operation(expression.op,
                          evaluate(b, expression.lhs, assignment),
                          evaluate(b, expression.rhs, assignment))

\* row and challenge assignments for the circuits of SpecFolding
FoldingAssignments ==
    {[base_table |-> (0 :> base), ext_table |-> (1 :> ext), challenges |-> (0 :> chal)]
        : base \in {0, 3}, ext \in {<<0, 0>>, <<2, 5>>}, chal \in {<<1, 0>>, <<4, 6>>}}

\* C38: constant_folding preserves meaning: under every assignment of the
\* base row, the extension row and the challenges, every root evaluates to
\* the same value after constant_folding as before it.
C38_FoldingPreservesValue ==
    [][(circuit_pc = "built" /\ circuit_pc' = "folded") =>
          \A i \in DOMAIN circuits, assignment \in FoldingAssignments :
             evaluate(builder', circuits'[i], assignment)
                 = evaluate(builder, circuits[i], assignment)]_vars

\* a folded multicircuit one of whose roots became another node, with a
\* value that is neither zero nor one under some assignment
C38_Witness ==
    /\ circuit_pc = "folded"
    /\ \E i \in DOMAIN circuits :
          /\ circuits[i] # last_call.circuits[i]
          /\ \E assignment \in FoldingAssignments :
                evaluate(builder, circuits[i], assignment) \notin {<<0, 0>>, <<1, 0>>}

----------------------------------------------------------------------------
(* the values of a lowered multicircuit *)

\* the columns an assignment of SpecLowering has values for
LoweringColumns == 0..(3 + MaxSubstitutions)

\* assignments of the columns and the challenge of the sample multicircuits;
\* the columns beyond them are filled by with_new_columns
LoweringAssignments ==
    {[base_table |-> [c \in LoweringColumns |-> IF c = 0 THEN x ELSE IF c = 1 THEN y ELSE 0],
      ext_table |-> [c \in LoweringColumns |-> IF c = 0 THEN e ELSE <<0, 0>>],
      challenges |-> (0 :> <<4, 6>>)]
        : x \in {0, 3}, y \in {2, 5}, e \in {<<1, 0>>, <<2, 5>>}}

\* the assignment with every new column holding the value of its rule, the
\* rules taken in the order lower_to_degree made them
RECURSIVE with_new_columns(_, _, _, _)
with_new_columns(b, substitutions, k, assignment) ==
    IF k > Len(substitutions) THEN assignment
    ELSE \* each value is computed once
         Only({ with_new_columns(b, substitutions, k + 1,
                    IF new_var.row = "BaseRow"
                    THEN [assignment EXCEPT !.base_table[new_var.index] = value[1]]
                    ELSE [assignment EXCEPT !.ext_table[new_var.index] = value])
                : new_var \in {b.heap[substitutions[k].new_variable].indicator},
                  value \in {evaluate(b, substitutions[k].chosen_node, assignment)} })

\* C39: lower_to_degree preserves meaning: under every assignment in which
\* each new column holds the value of its substitution rule, so that every
\* returned constraint evaluates to zero, each lowered root evaluates to
\* the value the root had before lower_to_degree.
C39_LoweringPreservesValue ==
    circuit_pc = "done" =>
        \A given \in LoweringAssignments :
           \E assignment \in {with_new_columns(builder, last_call.substitutions, 1, given)} :
              /\ \A k \in DOMAIN (base_constraints \o ext_constraints) :
                    evaluate(builder, (base_constraints \o ext_constraints)[k], assignment)
                        = <<0, 0>>
              /\ \A i \in DOMAIN circuits :
                    evaluate(builder, circuits[i], assignment)
                        = evaluate(last_call.builder_before, last_call.multicircuit[i], given)

\* lower_to_degree has returned a base and an extension rule, and a root
\* has a value outside the base field under some assignment
C39_Witness ==
    /\ circuit_pc = "done"
    /\ base_constraints # <<>> /\ ext_constraints # <<>>
    /\ \E given \in LoweringAssignments, i \in DOMAIN circuits :
          evaluate(builder, circuits[i],
                   with_new_columns(builder, last_call.substitutions, 1, given))[2] # 0

----------------------------------------------------------------------------
(* Program::decode on arbitrary sequences *)

\* C40: Program::decode is total and exact: for every sequence it returns
\* Ok or Err without indexing the sequence past its end, and whenever it
\* returns Ok(p), p.encode() is the sequence that was decoded.
C40_DecodeTotalAndExact ==
    codec_pc = "decoded" =>
        /\ DOMAIN decoded \in {DOMAIN Ok(<<>>), DOMAIN Err("")}
        /\ decoded.ok => encode(decoded.val) = encoded

\* an arbitrary sequence that decodes: a push of a value beyond 32 bits
\* followed by halt
C40_Witness ==
    /\ codec_pc = "decoded" /\ perturbation = "raw"
    /\ encoded = <<BFieldElement_new(3), BFieldElement_new(1), BeyondU32(1),
                   BFieldElement_new(0)>>
    /\ decoded = Ok(<<Push(BeyondU32(1)), Push(BeyondU32(1)), I("Halt")>>)

\* an arbitrary sequence whose last instruction lacks its argument
C40_MissingArgument ==
    /\ codec_pc = "decoded" /\ perturbation = "raw"
    /\ encoded = <<BFieldElement_new(1), BFieldElement_new(1)>>
    /\ decoded = Err("Missing argument for instruction")

====
